---- MODULE Spec2Model ----
\* FormForge RAG server: the asynchronous job/progress subsystem.
\*   - socketService.ts       : the notification hub (socket.io rooms, emit* functions,
\*                              replay on joinUploadRoom / joinWorkoutPlanRoom)
\*   - uploadProgressService.ts: uploadProgressMap and its operations; the generation
\*                              pipeline generateWorkoutPlan and workoutPlanProgress
\*   - uploadMiddleware.ts, fileController.ts : the upload session
\*   - workoutPlanController (unnamed/part_008): createWorkoutPlan
EXTENDS Integers, Sequences, FiniteSets, TLC

\* ---------------------------------------------------------------- bounds
\* The size of an upload's body, in chunks, and the number of join requests handled
MaxBytes == 2
MaxJoins == 2
\* The number of events published by direct calls of the upload registry
MaxCalls == 3
\* The last reading of the clock, and the number of processFiles requests
MaxClock == 1
MaxProcessing == 2
\* The largest batch handed to processFilesInBackground by a direct call
MaxFiles == 2
\* The largest number of chunks the text of a file is split into
MaxChunks == 2
\* The largest number of pieces of a response text
MaxText == 4
\* The largest number of rows of the documents table, and the largest topK
MaxDocs == 6
MaxTopK == 1

\* The socket ids of the connections, and the ids that uuidv4 hands out: an upload
\* and a generation job may carry the same string
Conns == {"s1", "s2"}
Ids == {"a"}

\* ---------------------------------------------------------------- state
VARIABLES
    io,                  \* socketService: the singleton server (TRUE once initSocketIO ran)
    sockets,             \* per socket id: "fresh", "connected", "disconnected"
    rooms,               \* socket.io adapter: room name -> set of member sockets
    inbox,               \* per socket and topic: the events the server has sent it, in order
    published,           \* per room: the emit calls made to it (name, members at the call)
    joins,               \* the number of join requests handled so far
    lastJoin,            \* the last join request handled: who, where, what was replayed
    uploadProgressMap,   \* uploadProgressService: upload id -> progress record
    upload,              \* per upload id: the request's position in middleware/controller
    cleanupTimers,       \* upload ids with a pending cleanupUploadProgress timer
    workoutPlanProgress, \* workoutPlanService: plan id -> generation status
    plan,                \* per plan id: position of createWorkoutPlan/generateWorkoutPlan
    clock,               \* the reading of Date.now()
    processing,          \* the processing jobs processFiles has started, in order
    pendingFiles,        \* fileController: upload id -> its file documents (references)
    fileRecords,         \* the file documents, by reference: status and error
    tempFiles,           \* the file documents whose uploaded file exists at its filePath
    vectorStore,         \* the rows added to the vector store: (fileId, chunk)
    ingest,              \* per job: position of processFileAndAddToVectorStore
    answer,              \* the last HTTP response of createWorkoutPlan (code 0: none yet)
    responseText,        \* the response text handed to extractJsonFromText
    parsedJson,          \* what extractJsonFromText returned for it
    retrieval            \* the document retrieval of a generation job: arguments, results

vars == <<io, sockets, rooms, inbox, published, joins, lastJoin, uploadProgressMap, upload,
          cleanupTimers, workoutPlanProgress, plan, clock, processing, pendingFiles,
          fileRecords, tempFiles, vectorStore, ingest, answer,
          responseText, parsedJson, retrieval>>

hubVars == <<io, sockets, rooms, inbox, published, joins, lastJoin>>
uploadVars == <<uploadProgressMap, upload, cleanupTimers>>
planVars == <<workoutPlanProgress, plan>>
storeVars == <<tempFiles, vectorStore, ingest>>
processVars == <<clock, processing, pendingFiles, fileRecords, storeVars>>
requestVars == <<answer>>
callVars == <<responseText, parsedJson, retrieval>>

\* ---------------------------------------------------------------- rooms
\* `upload:${uploadId}`
UploadRoom(uploadId) ==
    "upload:" \o uploadId

\* `workoutPlan:${planId}`
WorkoutPlanRoom(planId) ==
    "workoutPlan:" \o planId

RoomNames == {UploadRoom(i) : i \in Ids} \cup {WorkoutPlanRoom(i) : i \in Ids}

\* JS object spread {...a, ...b}: the keys of b win
Spread(a, b) ==
    b @@ a

\* Map.set / Map.delete / Map.has on a map kept as a function on its key set
MapSet(m, key, value) ==
    [x \in DOMAIN m \cup {key} |-> IF x = key THEN value ELSE m[x]]

MapDelete(m, key) ==
    [x \in DOMAIN m \ {key} |-> m[x]]

EmptyMap == [x \in {} |-> TRUE]

\* ---------------------------------------------------------------- hub
\* The hub state the emit functions act on: the sockets' inboxes and the log of calls.
Hub == [inbox |-> inbox, published |-> published]

\* Faulty variant, for comparison: the new event is put before what the socket was sent earlier
RoomEmitPrepend(h, room, name, payload) ==
    LET k == Len(h.published[room]) + 1
        ev == [name |-> name, payload |-> payload, room |-> room, k |-> k]
    IN [inbox |-> [c \in Conns |->
                     IF c \in rooms[room]
                     THEN [h.inbox[c] EXCEPT ![room] = <<ev>> \o @]
                     ELSE h.inbox[c]],
        published |-> [h.published EXCEPT
                         ![room] = Append(@, [name |-> name, payload |-> payload,
                                              members |-> rooms[room]])]]

\* io.to(room).emit(name, payload): one copy to every socket in the room at the call,
\* appended to what the socket was sent before. k numbers the emits of the room.
RoomEmit(h, room, name, payload) ==
    LET k == Len(h.published[room]) + 1
        ev == [name |-> name, payload |-> payload, room |-> room, k |-> k]
    IN [inbox |-> [c \in Conns |->
                     IF c \in rooms[room]
                     THEN [h.inbox[c] EXCEPT ![room] = Append(@, ev)]
                     ELSE h.inbox[c]],
        published |-> [h.published EXCEPT
                         ![room] = Append(@, [name |-> name, payload |-> payload,
                                              members |-> rooms[room]])]]

emitUploadProgress(h, uploadId, data) ==
    IF ~io THEN h
    ELSE RoomEmit(h, UploadRoom(uploadId), "uploadProgress",
                  Spread([uploadId |-> uploadId], data))

emitUploadComplete(h, uploadId, data) ==
    IF ~io THEN h
    ELSE RoomEmit(h, UploadRoom(uploadId), "uploadComplete",
                  Spread([uploadId |-> uploadId], data))

emitUploadError(h, uploadId, error) ==
    IF ~io THEN h
    ELSE RoomEmit(h, UploadRoom(uploadId), "uploadError",
                  [uploadId |-> uploadId, error |-> error])

emitProcessingStart(h, uploadId, data) ==
    IF ~io THEN h
    ELSE RoomEmit(h, UploadRoom(uploadId), "processingStart",
                  Spread([uploadId |-> uploadId], data))

emitProcessingProgress(h, uploadId, data) ==
    IF ~io THEN h
    ELSE RoomEmit(h, UploadRoom(uploadId), "processingProgress",
                  Spread([uploadId |-> uploadId], data))

emitProcessingComplete(h, uploadId, data) ==
    IF ~io THEN h
    ELSE RoomEmit(h, UploadRoom(uploadId), "processingComplete",
                  Spread([uploadId |-> uploadId], data))

emitProcessingError(h, uploadId, error) ==
    IF ~io THEN h
    ELSE RoomEmit(h, UploadRoom(uploadId), "processingError",
                  Spread([uploadId |-> uploadId], error))

emitWorkoutPlanProgress(h, planId, data) ==
    IF ~io THEN h
    ELSE RoomEmit(h, WorkoutPlanRoom(planId), "workoutPlanProgress",
                  Spread([planId |-> planId], data))

\* Faulty variant, for comparison: the completion event goes to the upload room of the same id
emitWorkoutPlanCompleteToUploadRoom(h, planId, data) ==
    IF ~io THEN h
    ELSE RoomEmit(h, UploadRoom(planId), "workoutPlanComplete",
                  Spread([planId |-> planId], data))

emitWorkoutPlanComplete(h, planId, data) ==
    IF ~io THEN h
    ELSE RoomEmit(h, WorkoutPlanRoom(planId), "workoutPlanComplete",
                  Spread([planId |-> planId], data))

emitWorkoutPlanError(h, planId, error) ==
    IF ~io THEN h
    ELSE RoomEmit(h, WorkoutPlanRoom(planId), "workoutPlanError",
                  Spread([planId |-> planId], error))

\* ---------------------------------------------------------------- upload registry
\* Date.now(): the clock is not modelled, every stamp is the same positive value
Now == 1

\* Faulty variant, for comparison: the percent of what is still to come
RoundPercentRemaining(bytesReceived, bytesExpected) ==
    (200 * (bytesExpected - bytesReceived) + bytesExpected) \div (2 * bytesExpected)

\* Math.round((bytesReceived / bytesExpected) * 100), halves rounded up
RoundPercent(bytesReceived, bytesExpected) ==
    (200 * bytesReceived + bytesExpected) \div (2 * bytesExpected)

getUploadProgress(uploadId) ==
    IF uploadId \in DOMAIN uploadProgressMap THEN <<uploadProgressMap[uploadId]>> ELSE <<>>

initialProgress ==
    [bytesReceived |-> 0, bytesExpected |-> 0, percent |-> 0, completed |-> FALSE,
     createdAt |-> Now]

\* The record updateUploadProgress stores and emits
progressData(m, uploadId, bytesReceived, bytesExpected) ==
    [bytesReceived |-> bytesReceived,
     bytesExpected |-> bytesExpected,
     percent |-> IF bytesExpected > 0 THEN RoundPercent(bytesReceived, bytesExpected) ELSE 0,
     completed |-> (bytesReceived = bytesExpected /\ bytesExpected > 0),
     createdAt |-> IF uploadId \in DOMAIN m THEN m[uploadId].createdAt ELSE Now]

\* The record completeUpload stores
completeData(progress, resultData) ==
    Spread(progress, [completed |-> TRUE, percent |-> 100, resultData |-> resultData])

\* The record failUpload stores
errorData(progress, errorMessage) ==
    Spread(progress, [error |-> errorMessage])

\* initUploadProgress: the record is set, whatever the map held for the id
initUploadProgress(m, uploadId) ==
    MapSet(m, uploadId, initialProgress)

\* The registry operations as functions of (map, hub): each returns the new pair.
UpdateUploadProgress(s, uploadId, bytesReceived, bytesExpected) ==
    LET d == progressData(s.map, uploadId, bytesReceived, bytesExpected)
    IN [map |-> MapSet(s.map, uploadId, d),
        hub |-> emitUploadProgress(s.hub, uploadId, d)]

CompleteUpload(s, uploadId, resultData) ==
    IF uploadId \in DOMAIN s.map
    THEN LET d == completeData(s.map[uploadId], resultData)
         IN [map |-> MapSet(s.map, uploadId, d),
             hub |-> emitUploadComplete(s.hub, uploadId, Spread(d, resultData))]
    ELSE s

FailUpload(s, uploadId, errorMessage) ==
    IF uploadId \in DOMAIN s.map
    THEN [map |-> MapSet(s.map, uploadId, errorData(s.map[uploadId], errorMessage)),
          hub |-> emitUploadError(s.hub, uploadId, errorMessage)]
    ELSE s

\* ---------------------------------------------------------------- generation registry
getWorkoutPlanStatus(planId) ==
    IF planId \in DOMAIN workoutPlanProgress THEN <<workoutPlanProgress[planId]>> ELSE <<>>

\* ---------------------------------------------------------------- join replay
\* Faulty variant, for comparison: the handler replays every event emitted to the room so far
UploadReplayBacklog(uploadId) ==
    [k \in 1..Len(published[UploadRoom(uploadId)]) |->
        [name |-> published[UploadRoom(uploadId)][k].name,
         payload |-> published[UploadRoom(uploadId)][k].payload]]

\* What the joinUploadRoom handler sends after socket.join: the snapshot, then the
\* complete event if the record is completed, else the error event if it has an error.
UploadReplay(uploadId) ==
    LET got == getUploadProgress(uploadId)
    IN IF got = <<>> THEN <<>>
       ELSE LET uploadData == got[1]
                snapshot == [name |-> "uploadProgress",
                             payload |-> Spread([uploadId |-> uploadId], uploadData)]
            IN IF uploadData.completed
               THEN <<snapshot,
                      [name |-> "uploadComplete",
                       payload |-> Spread(Spread([uploadId |-> uploadId], uploadData),
                                          IF "resultData" \in DOMAIN uploadData
                                          THEN uploadData.resultData ELSE EmptyMap)]>>
               ELSE IF "error" \in DOMAIN uploadData
               THEN <<snapshot,
                      [name |-> "uploadError",
                       payload |-> [uploadId |-> uploadId, error |-> uploadData.error]]>>
               ELSE <<snapshot>>

\* What the joinWorkoutPlanRoom handler sends after socket.join
WorkoutPlanReplay(planId) ==
    LET got == getWorkoutPlanStatus(planId)
    IN IF got = <<>> THEN <<>>
       ELSE LET planStatus == got[1]
                snapshot == [name |-> "workoutPlanProgress", payload |-> planStatus]
            IN IF planStatus.status = "completed"
               THEN <<snapshot, [name |-> "workoutPlanComplete", payload |-> planStatus]>>
               ELSE IF planStatus.status = "failed"
               THEN <<snapshot, [name |-> "workoutPlanError", payload |-> planStatus]>>
               ELSE <<snapshot>>

\* Faulty variant, for comparison: io.to(room).emit of each replayed event
ReplayToRoom(ib, c, room, evs) ==
    [d \in Conns |->
        IF d \in rooms[room] \cup {c}
        THEN [ib[d] EXCEPT ![room] = @ \o [i \in 1..Len(evs) |->
                                            [name |-> evs[i].name, payload |-> evs[i].payload,
                                             room |-> room, k |-> 0]]]
        ELSE ib[d]]

\* socket.emit of each replayed event, in order, to the joining socket only
\* (k = 0: not a room emit)
ReplayTo(ib, c, room, evs) ==
    [ib EXCEPT ![c][room] = @ \o [i \in 1..Len(evs) |->
                                    [name |-> evs[i].name, payload |-> evs[i].payload,
                                     room |-> room, k |-> 0]]]

\* The record kept of a join: the socket, the room, the length of what the socket had
\* been sent for the room, the number of events replayed and of emits made to the room
JoinEntry(c, room, evs) ==
    [conn |-> c, room |-> room, at |-> Len(inbox[c][room]), n |-> Len(evs),
     pubLen |-> Len(published[room])]

NoJoin == [conn |-> "none", room |-> "none", at |-> 0, n |-> 0, pubLen |-> 0]

\* ---------------------------------------------------------------- hub actions
\* io.on("connection"): a socket id is used by one connection only
Connect(c) ==
    /\ io
    /\ sockets[c] = "fresh"
    /\ sockets' = [sockets EXCEPT ![c] = "connected"]
    /\ UNCHANGED <<io, rooms, inbox, published, joins, lastJoin>>
    /\ UNCHANGED <<uploadVars, planVars>>
    /\ UNCHANGED <<processVars, requestVars, callVars>>

\* Faulty variant, for comparison: the socket stays in its rooms
DisconnectKeepsRooms(c) ==
    /\ sockets[c] = "connected"
    /\ sockets' = [sockets EXCEPT ![c] = "disconnected"]
    /\ UNCHANGED <<io, rooms, inbox, published, joins, lastJoin>>
    /\ UNCHANGED <<uploadVars, planVars>>
    /\ UNCHANGED <<processVars, requestVars, callVars>>

\* socket.on("disconnect"): socket.io has removed the socket from all its rooms
Disconnect(c) ==
    /\ sockets[c] = "connected"
    /\ sockets' = [sockets EXCEPT ![c] = "disconnected"]
    /\ rooms' = [r \in DOMAIN rooms |-> rooms[r] \ {c}]
    /\ UNCHANGED <<io, inbox, published, joins, lastJoin>>
    /\ UNCHANGED <<uploadVars, planVars>>
    /\ UNCHANGED <<processVars, requestVars, callVars>>

JoinUploadRoom(c, uploadId) ==
    /\ sockets[c] = "connected"
    /\ joins < MaxJoins
    /\ rooms' = [rooms EXCEPT ![UploadRoom(uploadId)] = @ \cup {c}]
    /\ inbox' = ReplayTo(inbox, c, UploadRoom(uploadId), UploadReplay(uploadId))
    /\ joins' = joins + 1
    /\ lastJoin' = JoinEntry(c, UploadRoom(uploadId), UploadReplay(uploadId))
    /\ UNCHANGED <<io, sockets, published>>
    /\ UNCHANGED <<uploadVars, planVars>>
    /\ UNCHANGED <<processVars, requestVars, callVars>>

LeaveUploadRoom(c, uploadId) ==
    /\ sockets[c] = "connected"
    /\ rooms' = [rooms EXCEPT ![UploadRoom(uploadId)] = @ \ {c}]
    /\ UNCHANGED <<io, sockets, inbox, published, joins, lastJoin>>
    /\ UNCHANGED <<uploadVars, planVars>>
    /\ UNCHANGED <<processVars, requestVars, callVars>>

JoinWorkoutPlanRoom(c, planId) ==
    /\ sockets[c] = "connected"
    /\ joins < MaxJoins
    /\ rooms' = [rooms EXCEPT ![WorkoutPlanRoom(planId)] = @ \cup {c}]
    /\ inbox' = ReplayTo(inbox, c, WorkoutPlanRoom(planId), WorkoutPlanReplay(planId))
    /\ joins' = joins + 1
    /\ lastJoin' = JoinEntry(c, WorkoutPlanRoom(planId), WorkoutPlanReplay(planId))
    /\ UNCHANGED <<io, sockets, published>>
    /\ UNCHANGED <<uploadVars, planVars>>
    /\ UNCHANGED <<processVars, requestVars, callVars>>

LeaveWorkoutPlanRoom(c, planId) ==
    /\ sockets[c] = "connected"
    /\ rooms' = [rooms EXCEPT ![WorkoutPlanRoom(planId)] = @ \ {c}]
    /\ UNCHANGED <<io, sockets, inbox, published, joins, lastJoin>>
    /\ UNCHANGED <<uploadVars, planVars>>
    /\ UNCHANGED <<processVars, requestVars, callVars>>

\* ---------------------------------------------------------------- upload session
\* The request's file as formidable reports it
MimeTypes == {"application/pdf", "text/markdown", "text/plain"}
Extensions == {".md", ".MD", ".txt"}

ToLowerCase(ext) ==
    IF ext = ".MD" THEN ".md" ELSE ext

\* uploadMiddleware: isPdf || isMarkdown
MiddlewareAccepts(mimetype, ext) ==
    \/ mimetype = "application/pdf"
    \/ mimetype = "text/markdown"
    \/ ToLowerCase(ext) = ".md"

\* uploadFile: the fileType it derives from the request's file
fileType(mimetype, ext) ==
    IF mimetype = "application/pdf" THEN "application/pdf"
    ELSE IF ext = ".md" THEN "text/markdown"
    ELSE mimetype

ControllerAccepts(mimetype, ext) ==
    fileType(mimetype, ext) \in {"application/pdf", "text/markdown"}

uploadResult(ext) ==
    [message |-> "File uploaded successfully and ready for processing",
     filename |-> "file" \o ext, fileId |-> "stored" \o ext, status |-> "uploaded"]

UploadState == [map |-> uploadProgressMap, hub |-> Hub]

SetUploadState(s) ==
    /\ uploadProgressMap' = s.map
    /\ inbox' = s.hub.inbox
    /\ published' = s.hub.published

\* uploadMiddleware up to form.parse: a fresh id, initUploadProgress, no event
StartUpload(uploadId, bytesExpected) ==
    /\ upload[uploadId].pc = "idle"
    /\ uploadProgressMap' = initUploadProgress(uploadProgressMap, uploadId)
    /\ upload' = [upload EXCEPT ![uploadId] =
                    [pc |-> "receiving", sent |-> 0, expected |-> bytesExpected,
                     outcome |-> "none"]]
    /\ UNCHANGED <<cleanupTimers, hubVars, planVars>>
    /\ UNCHANGED <<processVars, requestVars, callVars>>

\* form.on("progress"): the handler stays registered for the life of the form
FormProgress(uploadId, bytesReceived) ==
    /\ upload[uploadId].pc # "idle"
    /\ bytesReceived = upload[uploadId].sent + 1
    /\ bytesReceived <= MaxBytes
    /\ SetUploadState(UpdateUploadProgress(UploadState, uploadId, bytesReceived,
                                           upload[uploadId].expected))
    /\ upload' = [upload EXCEPT ![uploadId].sent = bytesReceived]
    /\ UNCHANGED <<cleanupTimers, io, sockets, rooms, joins, lastJoin, planVars>>
    /\ UNCHANGED <<processVars, requestVars, callVars>>

\* form.parse callback with err
ParseError(uploadId) ==
    /\ upload[uploadId].pc = "receiving"
    /\ SetUploadState(FailUpload(UploadState, uploadId, "parse error"))
    /\ upload' = [upload EXCEPT ![uploadId].pc = "done", ![uploadId].outcome = "parseError"]
    /\ UNCHANGED <<cleanupTimers, io, sockets, rooms, joins, lastJoin, planVars>>
    /\ UNCHANGED <<processVars, requestVars, callVars>>

\* maxFileSize of the form, in bytes
maxFileSize == 10 * 1024 * 1024

\* The file size the README gives as supported, in bytes
documentedFileSize == 20 * 1024 * 1024

\* The sizes of the files sent, in bytes
FileSizes ==
    {1, maxFileSize, maxFileSize + 1, documentedFileSize, documentedFileSize + 1}

\* form.parse callback with the err formidable gives when the file data received
\* exceeds maxFileSize
ParseTooLarge(uploadId, size) ==
    /\ upload[uploadId].pc = "receiving"
    /\ size > maxFileSize
    /\ SetUploadState(FailUpload(UploadState, uploadId, "options.maxFileSize exceeded"))
    /\ upload' = [upload EXCEPT ![uploadId].pc = "done", ![uploadId].outcome = "parseError"]
    /\ UNCHANGED <<cleanupTimers, io, sockets, rooms, joins, lastJoin, planVars>>
    /\ UNCHANGED <<processVars, requestVars, callVars>>

\* form.parse callback without err: the whole body has been received
ParseNoFile(uploadId) ==
    /\ upload[uploadId].pc = "receiving"
    /\ upload[uploadId].sent = MaxBytes
    /\ SetUploadState(FailUpload(UploadState, uploadId, "No file uploaded"))
    /\ upload' = [upload EXCEPT ![uploadId].pc = "done", ![uploadId].outcome = "noFile"]
    /\ UNCHANGED <<cleanupTimers, io, sockets, rooms, joins, lastJoin, planVars>>
    /\ UNCHANGED <<processVars, requestVars, callVars>>

\* Faulty variant, for comparison: no return after failUpload: next() runs uploadFile, which fails it again
ParseRejectedTypeNoReturn(uploadId, mimetype, ext) ==
    /\ upload[uploadId].pc = "receiving"
    /\ upload[uploadId].sent = MaxBytes
    /\ ~MiddlewareAccepts(mimetype, ext)
    /\ SetUploadState(FailUpload(FailUpload(UploadState, uploadId,
                                            "Only PDF and Markdown files are allowed"),
                                 uploadId, "Only PDF and Markdown files are supported"))
    /\ upload' = [upload EXCEPT ![uploadId].pc = "done",
                                ![uploadId].outcome = "rejectedType"]
    /\ UNCHANGED <<cleanupTimers, io, sockets, rooms, joins, lastJoin, planVars>>
    /\ UNCHANGED <<processVars, requestVars, callVars>>

ParseRejectedType(uploadId, mimetype, ext) ==
    /\ upload[uploadId].pc = "receiving"
    /\ upload[uploadId].sent = MaxBytes
    /\ ~MiddlewareAccepts(mimetype, ext)
    /\ SetUploadState(FailUpload(UploadState, uploadId,
                                 "Only PDF and Markdown files are allowed"))
    /\ upload' = [upload EXCEPT ![uploadId].pc = "done",
                                ![uploadId].outcome = "rejectedType"]
    /\ UNCHANGED <<cleanupTimers, io, sockets, rooms, joins, lastJoin, planVars>>
    /\ UNCHANGED <<processVars, requestVars, callVars>>

\* next() -> uploadFile, which has no await: it runs within the parse callback.
\* JSON.parse of the options field throws: the catch block fails the upload and
\* schedules its cleanup.
UploadFileThrows(uploadId, mimetype, ext) ==
    /\ upload[uploadId].pc = "receiving"
    /\ upload[uploadId].sent = MaxBytes
    /\ MiddlewareAccepts(mimetype, ext)
    /\ SetUploadState(FailUpload(UploadState, uploadId, "Unexpected token"))
    /\ cleanupTimers' = cleanupTimers \cup {uploadId}
    /\ upload' = [upload EXCEPT ![uploadId].pc = "done", ![uploadId].outcome = "threw"]
    /\ UNCHANGED <<io, sockets, rooms, joins, lastJoin, planVars>>
    /\ UNCHANGED <<processVars, requestVars, callVars>>

UploadFileUnsupported(uploadId, mimetype, ext) ==
    /\ upload[uploadId].pc = "receiving"
    /\ upload[uploadId].sent = MaxBytes
    /\ MiddlewareAccepts(mimetype, ext)
    /\ ~ControllerAccepts(mimetype, ext)
    /\ SetUploadState(FailUpload(UploadState, uploadId,
                                 "Only PDF and Markdown files are supported"))
    /\ upload' = [upload EXCEPT ![uploadId].pc = "done",
                                ![uploadId].outcome = "unsupported"]
    /\ UNCHANGED <<cleanupTimers, io, sockets, rooms, joins, lastJoin, planVars>>
    /\ UNCHANGED <<processVars, requestVars, callVars>>

\* The file document uploadFile makes: status "uploaded", no error yet
fileDoc == [status |-> "uploaded", error |-> "none"]

\* pendingFiles.get(uploadId), [] when the id has no entry
PendingOf(uploadId) ==
    IF uploadId \in DOMAIN pendingFiles THEN pendingFiles[uploadId] ELSE <<>>

UploadFileCompletes(uploadId, mimetype, ext) ==
    /\ upload[uploadId].pc = "receiving"
    /\ upload[uploadId].sent = MaxBytes
    /\ MiddlewareAccepts(mimetype, ext)
    /\ ControllerAccepts(mimetype, ext)
    /\ fileRecords' = Append(fileRecords, fileDoc)
    /\ pendingFiles' = MapSet(pendingFiles, uploadId,
                              Append(PendingOf(uploadId), Len(fileRecords) + 1))
    /\ SetUploadState(CompleteUpload(UploadState, uploadId, uploadResult(ext)))
    /\ upload' = [upload EXCEPT ![uploadId].pc = "done",
                                ![uploadId].outcome = "completed"]
    /\ UNCHANGED <<cleanupTimers, io, sockets, rooms, joins, lastJoin, planVars>>
    /\ tempFiles' = tempFiles \cup {Len(fileRecords) + 1}
    /\ UNCHANGED <<clock, processing, vectorStore, ingest, requestVars, callVars>>

\* Faulty variant, for comparison: the timer ends without deleting the record
CleanupTimerFiresKeepsRecord(uploadId) ==
    /\ uploadId \in cleanupTimers
    /\ cleanupTimers' = cleanupTimers \ {uploadId}
    /\ UNCHANGED <<uploadProgressMap, upload, hubVars, planVars>>
    /\ UNCHANGED <<processVars, requestVars, callVars>>

\* GET /upload-status/:uploadId: 404, or 200 with the record
uploadStatus(uploadId) ==
    LET progress == getUploadProgress(uploadId)
    IN IF progress = <<>> THEN [status |-> 404, body |-> [error |-> "Upload not found"]]
       ELSE [status |-> 200, body |-> Spread([uploadId |-> uploadId], progress[1])]

\* The timer of cleanupUploadProgress fires
CleanupTimerFires(uploadId) ==
    /\ uploadId \in cleanupTimers
    /\ uploadProgressMap' = MapDelete(uploadProgressMap, uploadId)
    /\ cleanupTimers' = cleanupTimers \ {uploadId}
    /\ UNCHANGED <<upload, hubVars, planVars>>
    /\ UNCHANGED <<processVars, requestVars, callVars>>

\* ---------------------------------------------------------------- upload registry, called directly
\* The exported functions of uploadProgressService, called in any order for an id
CallInitUploadProgress(uploadId) ==
    /\ uploadProgressMap' = initUploadProgress(uploadProgressMap, uploadId)
    /\ UNCHANGED <<upload, cleanupTimers, hubVars, planVars>>
    /\ UNCHANGED <<processVars, requestVars, callVars>>

CallUpdateUploadProgress(uploadId, bytesReceived, bytesExpected) ==
    /\ Len(published[UploadRoom(uploadId)]) < MaxCalls
    /\ SetUploadState(UpdateUploadProgress(UploadState, uploadId, bytesReceived,
                                           bytesExpected))
    /\ UNCHANGED <<upload, cleanupTimers, io, sockets, rooms, joins, lastJoin, planVars>>
    /\ UNCHANGED <<processVars, requestVars, callVars>>

CallCompleteUpload(uploadId, ext) ==
    /\ Len(published[UploadRoom(uploadId)]) < MaxCalls
    /\ SetUploadState(CompleteUpload(UploadState, uploadId, uploadResult(ext)))
    /\ UNCHANGED <<upload, cleanupTimers, io, sockets, rooms, joins, lastJoin, planVars>>
    /\ UNCHANGED <<processVars, requestVars, callVars>>

CallFailUpload(uploadId, errorMessage) ==
    /\ Len(published[UploadRoom(uploadId)]) < MaxCalls
    /\ SetUploadState(FailUpload(UploadState, uploadId, errorMessage))
    /\ UNCHANGED <<upload, cleanupTimers, io, sockets, rooms, joins, lastJoin, planVars>>
    /\ UNCHANGED <<processVars, requestVars, callVars>>

\* cleanupUploadProgress: the timer is set
CallCleanupUploadProgress(uploadId) ==
    /\ cleanupTimers' = cleanupTimers \cup {uploadId}
    /\ UNCHANGED <<uploadProgressMap, upload, hubVars, planVars>>
    /\ UNCHANGED <<processVars, requestVars, callVars>>

\* ---------------------------------------------------------------- file processing
\* The clock moves on
Tick ==
    /\ clock < MaxClock
    /\ clock' = clock + 1
    /\ UNCHANGED <<processing, pendingFiles, fileRecords, storeVars>>
    /\ UNCHANGED <<hubVars, uploadVars, planVars, requestVars, callVars>>

\* `proc-${Date.now()}-${targetUploadId}`
processingIdOf(now, targetUploadId) ==
    "proc-" \o ToString(now) \o "-" \o targetUploadId

\* The progress event at the top of the loop body, for the file at position k
beforeFile(processingId, files, k, processedFiles) ==
    [processingId |-> processingId, fileId |-> files[k],
     processedFiles |-> processedFiles, totalFiles |-> Len(files),
     percent |-> RoundPercent(processedFiles, Len(files))]

\* The progress event after a file was processed (currentFile: null)
afterFile(processingId, files, processedFiles) ==
    [processingId |-> processingId, processedFiles |-> processedFiles,
     totalFiles |-> Len(files), percent |-> RoundPercent(processedFiles, Len(files))]

\* Faulty variant, for comparison: the events of all files are emitted at the start
startBatchAllAtOnce(h, uploadId, processingId, files) ==
    LET RECURSIVE emitFrom(_, _)
        emitFrom(g, k) ==
            IF k > Len(files) THEN g
            ELSE emitFrom(emitProcessingProgress(g, uploadId,
                              beforeFile(processingId, files, k, 0)), k + 1)
    IN emitFrom(h, 1)

\* processFilesInBackground up to its first await: the progress event of the
\* first file
startBatch(h, uploadId, processingId, files) ==
    emitProcessingProgress(h, uploadId, beforeFile(processingId, files, 1, 0))

\* The job processFilesInBackground runs: its arguments, the loop's position and
\* its locals processedFiles, totalChunks, totalCharacters and results
batchJob(uploadId, processingId, files) ==
    [processingId |-> processingId, uploadId |-> uploadId, running |-> TRUE,
     files |-> files, current |-> 1, processedFiles |-> 0,
     totalChunks |-> 0, totalCharacters |-> 0, results |-> <<>>]

\* processFiles for an upload id that has pending files, with no fileIds in the
\* body: the id, the start event, then processFilesInBackground up to its first
\* await, then the 202
ProcessFiles(uploadId) ==
    /\ uploadId \in DOMAIN pendingFiles
    /\ Len(processing) < MaxProcessing
    /\ LET processingId == processingIdOf(clock, uploadId)
           filesToProcess == pendingFiles[uploadId]
           h1 == emitProcessingStart(Hub, uploadId,
                    [processingId |-> processingId,
                     totalFiles |-> Len(filesToProcess)])
           h2 == startBatch(h1, uploadId, processingId, filesToProcess)
       IN /\ Len(filesToProcess) # 0
          /\ inbox' = h2.inbox
          /\ published' = h2.published
          /\ processing' = Append(processing,
                               batchJob(uploadId, processingId, filesToProcess))
    /\ UNCHANGED <<clock, pendingFiles, fileRecords, storeVars>>
    /\ UNCHANGED <<io, sockets, rooms, joins, lastJoin, uploadVars, planVars, requestVars, callVars>>

\* The processing ids a direct caller of processFilesInBackground passes
BatchIds == {"batch-1", "batch-2"}

\* processFilesInBackground called with a batch of n file documents of its own,
\* under a processing id no other batch has
CallProcessFilesInBackground(uploadId, processingId, n) ==
    /\ \A j \in 1..Len(processing) : processing[j].processingId # processingId
    /\ LET files == [k \in 1..n |-> Len(fileRecords) + k]
           h1 == startBatch(Hub, uploadId, processingId, files)
       IN /\ inbox' = h1.inbox
          /\ published' = h1.published
          /\ fileRecords' = fileRecords \o [k \in 1..n |-> fileDoc]
          /\ tempFiles' = tempFiles \cup {files[k] : k \in 1..n}
          /\ processing' = Append(processing, batchJob(uploadId, processingId, files))
    /\ UNCHANGED <<clock, pendingFiles, vectorStore, ingest>>
    /\ UNCHANGED <<io, sockets, rooms, joins, lastJoin, uploadVars, planVars, requestVars, callVars>>

\* extractedText.length of the file: the file with index f holds f characters
textLength(file) == file

\* textChunks.length of the file: between 1 and MaxChunks chunks
chunkCount(file) == (file % MaxChunks) + 1

\* What processFileAndAddToVectorStore returns for the file
resultOf(file) ==
    [chunks |-> chunkCount(file), totalCharacters |-> textLength(file)]

\* results.push({fileId, filename, chunks, totalCharacters}), reached only when
\* the file was processed
pushResult(results, file, outcome) ==
    IF outcome = "ok"
    THEN Append(results, [fileId |-> file, chunks |-> resultOf(file).chunks,
                          totalCharacters |-> resultOf(file).totalCharacters])
    ELSE results

\* totalChunks += result.chunks and totalCharacters += result.totalCharacters
addTotal(total, amount, outcome) ==
    IF outcome = "ok" THEN total + amount ELSE total

\* Faulty variant, for comparison: a failed file is counted as processed
countProcessedAlways(processedFiles, outcome) == processedFiles + 1

\* processedFiles++ is reached only when the file was processed
countProcessed(processedFiles, outcome) ==
    IF outcome = "ok" THEN processedFiles + 1 ELSE processedFiles

\* Faulty variant, for comparison: the loop is left when a file fails
loopStopsOnFailure(job, outcome) ==
    outcome = "ok" /\ job.current < Len(job.files)

\* for (const file of files): the catch is inside the loop body, so the loop
\* goes on to the next file whatever the outcome
loopContinues(job, outcome) == job.current < Len(job.files)

\* The continuation of await processFileAndAddToVectorStore in the loop body,
\* for a call that returned or threw: the file's status, its event, then the next
\* file's progress event, or the completion event after the last file
AwaitSettles(j, outcome) ==
    /\ j \in 1..Len(processing)
    /\ processing[j].running
    /\ LET job == processing[j]
           processingId == job.processingId
           uploadId == job.uploadId
           file == job.files[job.current]
           processedFiles == countProcessed(job.processedFiles, outcome)
           totalChunks == addTotal(job.totalChunks, resultOf(file).chunks, outcome)
           totalCharacters ==
               addTotal(job.totalCharacters, resultOf(file).totalCharacters, outcome)
           results == pushResult(job.results, file, outcome)
           h1 == IF outcome = "ok"
                 THEN emitProcessingProgress(Hub, uploadId,
                         afterFile(processingId, job.files, processedFiles))
                 ELSE emitProcessingError(Hub, uploadId,
                         [processingId |-> processingId, fileId |-> file,
                          error |-> "processing failed"])
           h2 == IF loopContinues(job, outcome)
                 THEN emitProcessingProgress(h1, uploadId,
                         beforeFile(processingId, job.files, job.current + 1,
                                    processedFiles))
                 ELSE emitProcessingComplete(h1, uploadId,
                         [processingId |-> processingId,
                          processedFiles |-> processedFiles,
                          totalFiles |-> Len(job.files),
                          totalChunks |-> totalChunks,
                          totalCharacters |-> totalCharacters,
                          results |-> results])
       IN /\ inbox' = h2.inbox
          /\ published' = h2.published
          /\ fileRecords' =
                [fileRecords EXCEPT ![file] =
                    IF outcome = "ok" THEN [@ EXCEPT !.status = "processed"]
                    ELSE [status |-> "error", error |-> "processing failed"]]
          /\ processing' =
                [processing EXCEPT ![j] =
                    IF loopContinues(job, outcome)
                    THEN [job EXCEPT !.current = job.current + 1,
                                     !.processedFiles = processedFiles,
                                     !.totalChunks = totalChunks,
                                     !.totalCharacters = totalCharacters,
                                     !.results = results]
                    ELSE [job EXCEPT !.running = FALSE,
                                     !.processedFiles = processedFiles,
                                     !.totalChunks = totalChunks,
                                     !.totalCharacters = totalCharacters,
                                     !.results = results]]
    /\ UNCHANGED <<clock, pendingFiles>>
    /\ UNCHANGED <<io, sockets, rooms, joins, lastJoin, uploadVars, planVars, requestVars, callVars>>

\* await processFileAndAddToVectorStore returns or throws for the current file,
\* the call taken as a whole
FileProcessed(j, outcome) ==
    /\ j \notin DOMAIN ingest
    /\ AwaitSettles(j, outcome)
    /\ UNCHANGED storeVars

\* The file the job is processing
currentFile(j) ==
    processing[j].files[processing[j].current]

\* The call of processFileAndAddToVectorStore for the job's current file is at
\* the await of the given name
IngestAt(j, pc) ==
    /\ j \in 1..Len(processing)
    /\ processing[j].running
    /\ IF j \in DOMAIN ingest THEN ingest[j].pc = pc ELSE pc = "processFile"

\* Faulty variant, for comparison: the file is deleted after its first chunk
removeAfterFirstChunk(files, file, added) ==
    IF added >= 1 THEN files \ {file} ELSE files

\* for (i < textChunks.length) has ended: if (fs.existsSync(filePath))
\* fs.unlinkSync(filePath)
removeWhenAdded(files, file, added) ==
    IF added = chunkCount(file) THEN files \ {file} ELSE files

\* The position after added chunks were added: the next addDocumentToVectorStore,
\* or the return
afterAdded(file, added) ==
    [pc |-> IF added = chunkCount(file) THEN "returned" ELSE "addDocument", added |-> added]

\* await processFile(filePath, fileType) settles: readFile fails when there is no
\* file at filePath, and the catch rethrows
ProcessFile(j, outcome) ==
    /\ IngestAt(j, "processFile")
    /\ outcome = "ok" => currentFile(j) \in tempFiles
    /\ ingest' = MapSet(ingest, j,
                    [pc |-> IF outcome = "ok" THEN "splitText" ELSE "thrown", added |-> 0])
    /\ UNCHANGED <<tempFiles, vectorStore>>
    /\ UNCHANGED <<clock, processing, pendingFiles, fileRecords>>
    /\ UNCHANGED <<hubVars, uploadVars, planVars, requestVars, callVars>>

\* await splitTextIntoChunks(extractedText) settles; with no chunks the loop
\* ends at once
SplitTextIntoChunks(j, outcome) ==
    /\ IngestAt(j, "splitText")
    /\ ingest' = MapSet(ingest, j,
                    IF outcome = "ok" THEN afterAdded(currentFile(j), 0)
                    ELSE [pc |-> "thrown", added |-> 0])
    /\ tempFiles' = IF outcome = "ok" THEN removeWhenAdded(tempFiles, currentFile(j), 0)
                    ELSE tempFiles
    /\ UNCHANGED vectorStore
    /\ UNCHANGED <<clock, processing, pendingFiles, fileRecords>>
    /\ UNCHANGED <<hubVars, uploadVars, planVars, requestVars, callVars>>

\* await addDocumentToVectorStore({text: textChunks[i], metadata}) settles for
\* the next chunk; after the last chunk the file is removed and the call returns
AddDocumentToVectorStore(j, outcome) ==
    /\ IngestAt(j, "addDocument")
    /\ LET file == currentFile(j)
           added == ingest[j].added + 1
       IN IF outcome = "ok"
          THEN /\ vectorStore' = vectorStore \cup {[fileId |-> file, chunk |-> added]}
               /\ ingest' = MapSet(ingest, j, afterAdded(file, added))
               /\ tempFiles' = removeWhenAdded(tempFiles, file, added)
          ELSE /\ ingest' = MapSet(ingest, j, [pc |-> "thrown", added |-> ingest[j].added])
               /\ UNCHANGED <<tempFiles, vectorStore>>
    /\ UNCHANGED <<clock, processing, pendingFiles, fileRecords>>
    /\ UNCHANGED <<hubVars, uploadVars, planVars, requestVars, callVars>>

\* The loop body of processFilesInBackground goes on after the call returned or
\* threw
FileIngested(j) ==
    /\ j \in DOMAIN ingest
    /\ ingest[j].pc \in {"returned", "thrown"}
    /\ AwaitSettles(j, IF ingest[j].pc = "returned" THEN "ok" ELSE "throws")
    /\ ingest' = MapDelete(ingest, j)
    /\ UNCHANGED <<tempFiles, vectorStore>>

\* ---------------------------------------------------------------- JSON extraction
\* A response text is a sequence of pieces: the fence ```, the tag json, a blank,
\* a double quote, an object in JSON syntax, an object that is JSON but for an
\* unquoted key and a trailing comma, and a word
Fence == "fence"
Tag == "json"
Blank == "blank"
Quote == "quote"
Object == "object"
LooseObject == "loose object"
Word == "word"

Pieces == {Fence, Tag, Blank, Quote, Object, LooseObject, Word}

\* The response texts of up to MaxText pieces
Texts == UNION {[1..n -> Pieces] : n \in 0..MaxText}

\* null, and what JSON.parse throws
Null == [kind |-> "null"]
SyntaxError == [kind |-> "SyntaxError"]

\* String.prototype.trim
RECURSIVE trim(_)
trim(s) ==
    IF s = <<>> THEN s
    ELSE IF Head(s) = Blank THEN trim(Tail(s))
    ELSE IF s[Len(s)] = Blank THEN trim(SubSeq(s, 1, Len(s) - 1))
    ELSE s

\* JSON.parse: white space around one value; the values here are the object and
\* a string literal, whose characters are any pieces but the double quote
JSONParse(s) ==
    LET t == trim(s)
    IN IF t = <<Object>> THEN [kind |-> "object"]
       ELSE IF /\ Len(t) >= 2
               /\ t[1] = Quote
               /\ t[Len(t)] = Quote
               /\ \A k \in 2..(Len(t) - 1) : t[k] # Quote
            THEN [kind |-> "string", chars |-> SubSeq(t, 2, Len(t) - 1)]
       ELSE SyntaxError

\* text.match(/```(?:json)?([\s\S]*?)```/): null, or the capture group of the
\* leftmost match; the tag is taken when it follows the fence, and the group
\* ends before the next fence
matchCodeBlock(t) ==
    LET fences == {k \in 1..Len(t) : t[k] = Fence}
    IN IF Cardinality(fences) < 2 THEN Null
       ELSE LET open == CHOOSE k \in fences : \A m \in fences : k <= m
                start == IF t[open + 1] = Tag THEN open + 2 ELSE open + 1
                close == CHOOSE k \in fences :
                             k >= start /\ \A m \in fences : m >= start => k <= m
            IN [kind |-> "match", group |-> SubSeq(t, start, close - 1)]

\* The three replace calls: trailing commas before } and ] are removed and the
\* keys are put in double quotes
cleanedJson(s) ==
    [k \in 1..Len(s) |-> IF s[k] = LooseObject THEN Object ELSE s[k]]

\* extractJsonFromText: jsonMatch && jsonMatch[1] holds for a match whose group
\* is not the empty string
extractJsonFromText(t) ==
    LET jsonMatch == matchCodeBlock(t)
    IN IF jsonMatch # Null /\ jsonMatch.group # <<>>
       THEN IF JSONParse(trim(jsonMatch.group)) # SyntaxError
            THEN JSONParse(trim(jsonMatch.group))
            ELSE IF JSONParse(cleanedJson(trim(jsonMatch.group))) # SyntaxError
                 THEN JSONParse(cleanedJson(trim(jsonMatch.group)))
                 ELSE Null
       ELSE IF JSONParse(trim(t)) # SyntaxError THEN JSONParse(trim(t)) ELSE Null

NotCalled == [kind |-> "not called"]

\* A response text arrives
ResponseText(t) ==
    /\ parsedJson = NotCalled
    /\ responseText = <<>>
    /\ t # <<>>
    /\ responseText' = t
    /\ UNCHANGED <<parsedJson, retrieval>>
    /\ UNCHANGED <<hubVars, uploadVars, planVars, processVars, requestVars>>

\* extractJsonFromText(fullResponse) returns
ExtractJsonFromText ==
    /\ parsedJson = NotCalled
    /\ parsedJson' = extractJsonFromText(responseText)
    /\ UNCHANGED <<responseText, retrieval>>
    /\ UNCHANGED <<hubVars, uploadVars, planVars, processVars, requestVars>>

\* ---------------------------------------------------------------- document retrieval
\* The fileId values of the rows of the documents table: the ids of two files,
\* the first id within single quotes, and the empty string
StoredFileIds == {"f1", "f2", "'f1'", ""}

\* The fileIds arrays of the callers
CallerFileIds == {<<"f1">>, <<"f2">>, <<"f1", "f2">>, <<"f2", "f1">>}

\* The documents table in the order of similarity to the query: row k has rank k
Stores ==
    UNION {[1..n -> StoredFileIds] : n \in 0..MaxDocs}

documentsOf(store) ==
    [k \in 1..Len(store) |-> [rank |-> k, fileId |-> store[k]]]

\* Array.prototype.includes
includes(array, value) ==
    \E k \in 1..Len(array) : array[k] = value

\* Array.prototype.slice(0, n)
slice(array, n) ==
    SubSeq(array, 1, IF n < Len(array) THEN n ELSE Len(array))

\* topK * 5
overFetch(topK) == topK * 5

\* vectorStore.similaritySearch(query, k): the k rows most similar to the query
similaritySearch(store, k) ==
    slice(documentsOf(store), k)

\* getDocumentsFromFileIds: fileId && fileIds.includes(fileId), then slice(0, topK)
getDocumentsFromFileIds(fileIds, store, topK) ==
    LET documents == similaritySearch(store, overFetch(topK))
        Keep(doc) == doc.fileId # "" /\ includes(fileIds, doc.fileId)
    IN slice(SelectSeq(documents, Keep), topK)

\* `(${fileIds.map((id) => `'${id}'`).join(",")})`: the items of the list; the
\* ids here hold no comma
inList(fileIds) ==
    [k \in 1..Len(fileIds) |-> "'" \o fileIds[k] \o "'"]

\* .filter("metadata->>fileId", "in", list): the rows whose fileId is an item of
\* the list; PostgREST takes an item as the text between the commas, and only
\* double quotes group
getDocumentsDirectlyFromSupabase(fileIds, store) ==
    LET Keep(doc) == includes(inList(fileIds), doc.fileId)
    IN SelectSeq(documentsOf(store), Keep)

\* generateWorkoutPlan gets its documents: the primary strategy, and the direct
\* retrieval when that gave none
GetDocuments(fileIds, store, topK) ==
    /\ retrieval = NotCalled
    /\ LET primary == getDocumentsFromFileIds(fileIds, store, topK)
       IN retrieval' =
             [kind |-> "retrieved", fileIds |-> fileIds, store |-> store, topK |-> topK,
              primary |-> primary,
              documents |-> IF Len(primary) = 0
                            THEN getDocumentsDirectlyFromSupabase(fileIds, store)
                            ELSE primary]
    /\ UNCHANGED <<responseText, parsedJson>>
    /\ UNCHANGED <<hubVars, uploadVars, planVars, processVars, requestVars>>

\* ---------------------------------------------------------------- generation pipeline
NoDocumentsPrefix ==
    "No relevant documents found"

NoDocumentsMsg ==
    NoDocumentsPrefix \o " for the provided file IDs after retrieval attempts. Cannot generate plan."

acceptedData(planId) ==
    [planId |-> planId, status |-> "accepted", progress |-> 0,
     step |-> "Request accepted, queueing generation...",
     message |-> "Workout plan generation request received."]

stepData(planId, progress, step) ==
    [planId |-> planId, progress |-> progress, step |-> step]

\* The payload of the catch block at the end of generateWorkoutPlan
caughtError(planId, message) ==
    [planId |-> planId, error |-> message, status |-> "failed", progress |-> 0,
     step |-> "Error during generation process",
     message |-> "Workout plan generation failed."]

noDocumentsError(planId) ==
    [planId |-> planId, error |-> NoDocumentsMsg, status |-> "failed",
     step |-> "Failed to retrieve documents", message |-> NoDocumentsMsg, progress |-> 0]

saveError(planId) ==
    [planId |-> planId, error |-> "Failed to save workout plan", status |-> "failed",
     step |-> "Failed to save workout plan",
     message |-> "An error occurred while saving the workout plan.", progress |-> 0]

\* Faulty variant, for comparison: a failed validation leaves no error message
finalErrorMessageParsingOnly(p) ==
    IF p.parsingError THEN "Parsing failed" ELSE "none"

\* finalErrorMessage: undefined is kept as "none"
finalErrorMessage(p) ==
    IF p.parsingError THEN "Parsing failed"
    ELSE IF p.validationError THEN "Validation failed"
    ELSE "none"

finalMessage(p) ==
    IF ~p.parsingError /\ ~p.validationError /\ p.finalPlan = p.parsedPlan
    THEN "Workout plan generated and validated successfully."
    ELSE IF p.finalPlan # p.parsedPlan
    THEN "Workout plan generation had issues (parsing or validation failed), using fallback plan."
    ELSE "Workout plan generation completed with errors."

completionData(planId, p) ==
    [planId |-> planId, status |-> "completed", progress |-> 100,
     step |-> "Workout plan generation completed and saved",
     result |-> p.finalPlan, message |-> finalMessage(p), error |-> finalErrorMessage(p)]

SetHub(h) ==
    /\ inbox' = h.inbox
    /\ published' = h.published

\* The catch block at the end of generateWorkoutPlan
Caught(planId, message) ==
    /\ SetHub(emitWorkoutPlanError(Hub, planId, caughtError(planId, message)))
    /\ plan' = [plan EXCEPT ![planId].pc = "done"]

\* The values req.body can give for query and fileIds: a missing field, an empty
\* string, a text, a number; a missing field, a string, an empty array, an array
\* of ids
Queries == {"undefined", "empty", "text", "number"}

FileIdsValues == {"undefined", "string", "emptyArray", "array"}

Inputs == [query : Queries, fileIds : FileIdsValues]

\* !v is false for v
Truthy(v) == v \notin {"undefined", "empty"}

IsArray(v) == v \in {"emptyArray", "array"}

\* v.length of an array
ArrayLength(v) == IF v = "array" THEN 1 ELSE 0

\* Faulty variant, for comparison: fileIds is not looked at
ValidInputQueryOnly(input) == Truthy(input.query)

\* The body passes the check of createWorkoutPlan
ValidInput(input) ==
    ~(\/ ~Truthy(input.query)
      \/ ~Truthy(input.fileIds)
      \/ ~IsArray(input.fileIds)
      \/ ArrayLength(input.fileIds) = 0)

\* The body passes the two checks of the awaiting controller's createWorkoutPlan
ServiceValidInput(input) ==
    /\ ~(~Truthy(input.query) \/ input.query = "number")
    /\ ~(\/ ~Truthy(input.fileIds)
         \/ ~IsArray(input.fileIds)
         \/ ArrayLength(input.fileIds) = 0)

NoAnswer == [code |-> 0, body |-> [message |-> "none"]]

badRequest ==
    [code |-> 400,
     body |-> [error |-> "Bad Request",
               message |-> "Query and a non-empty array of fileIds are required."]]

accepted(planId) ==
    [code |-> 202,
     body |-> [planId |-> planId, status |-> "accepted",
               message |-> "Workout plan generation initiated. Track status via WebSocket."]]

\* createWorkoutPlan with a body that fails the check: the 400, and nothing else
CreateWorkoutPlanRejects(input) ==
    /\ ~ValidInput(input)
    /\ answer' = badRequest
    /\ UNCHANGED <<hubVars, uploadVars, planVars, processVars, callVars>>

\* Faulty variant, for comparison: generateWorkoutPlan is started before the
\* accepted event is emitted
CreateWorkoutPlanStartsFirst(planId, input) ==
    /\ ValidInput(input)
    /\ plan[planId].pc = "idle"
    /\ LET h1 == emitWorkoutPlanProgress(Hub, planId,
                    [planId |-> planId, status |-> "generating", progress |-> 5,
                     step |-> "Starting workout plan generation"])
           h2 == emitWorkoutPlanProgress(h1, planId,
                    [planId |-> planId, progress |-> 15,
                     step |-> "Retrieving relevant documents"])
           h3 == emitWorkoutPlanProgress(h2, planId,
                    [planId |-> planId, status |-> "accepted", progress |-> 0,
                     step |-> "Request accepted, queueing generation...",
                     message |-> "Workout plan generation request received."])
       IN /\ inbox' = h3.inbox
          /\ published' = h3.published
    /\ plan' = [plan EXCEPT ![planId].pc = "retrieving"]
    /\ answer' = [code |-> 202,
                  body |-> [planId |-> planId, status |-> "accepted",
                            message |-> "Workout plan generation initiated. Track status via WebSocket."]]
    /\ UNCHANGED <<workoutPlanProgress, io, sockets, rooms, joins, lastJoin, uploadVars>>
    /\ UNCHANGED <<processVars, callVars>>

\* createWorkoutPlan with a valid body: the accepted event, then generateWorkoutPlan
\* runs, not awaited, up to its first await (the similarity search), then the 202.
CreateWorkoutPlan(planId, input) ==
    /\ ValidInput(input)
    /\ plan[planId].pc = "idle"
    /\ LET h1 == emitWorkoutPlanProgress(Hub, planId, acceptedData(planId))
           h2 == emitWorkoutPlanProgress(h1, planId,
                    [planId |-> planId, status |-> "generating", progress |-> 5,
                     step |-> "Starting workout plan generation"])
           h3 == emitWorkoutPlanProgress(h2, planId,
                    stepData(planId, 15, "Retrieving relevant documents"))
       IN SetHub(h3)
    /\ plan' = [plan EXCEPT ![planId].pc = "retrieving"]
    /\ answer' = accepted(planId)
    /\ UNCHANGED <<workoutPlanProgress, io, sockets, rooms, joins, lastJoin, uploadVars>>
    /\ UNCHANGED <<processVars, callVars>>

\* documents is not empty: source tells which retrieval filled it
PreparePrompt(planId, source) ==
    /\ SetHub(emitWorkoutPlanProgress(Hub, planId,
                 stepData(planId, 30, "Preparing prompt for LLM")))
    /\ plan' = [plan EXCEPT ![planId].pc = "loadingPrompt", ![planId].documents = source]

\* await getDocumentsFromFileIds returns or throws
Retrieved(planId, outcome) ==
    /\ plan[planId].pc = "retrieving"
    /\ CASE outcome = "documents" -> PreparePrompt(planId, "primary")
         [] outcome = "empty" ->
              /\ plan' = [plan EXCEPT ![planId].pc = "retrievingDirectly"]
              /\ UNCHANGED <<inbox, published>>
         [] outcome = "throws" ->
              Caught(planId, "Failed to retrieve documents by file IDs")
    /\ UNCHANGED <<workoutPlanProgress, io, sockets, rooms, joins, lastJoin, uploadVars>>
    /\ UNCHANGED <<processVars, requestVars, callVars>>

\* Faulty variant, for comparison: no return after the no-documents error: the pipeline goes on
RetrievedDirectlyNoReturn(planId, outcome) ==
    /\ plan[planId].pc = "retrievingDirectly"
    /\ CASE outcome = "documents" -> PreparePrompt(planId, "direct")
         [] outcome = "empty" ->
              /\ SetHub(emitWorkoutPlanProgress(
                    emitWorkoutPlanError(Hub, planId, noDocumentsError(planId)),
                    planId, stepData(planId, 30, "Preparing prompt for LLM")))
              /\ plan' = [plan EXCEPT ![planId].pc = "loadingPrompt",
                                      ![planId].documents = "empty"]
         [] outcome = "throws" ->
              Caught(planId, "Failed to retrieve documents from database")
    /\ UNCHANGED <<workoutPlanProgress, io, sockets, rooms, joins, lastJoin, uploadVars>>
    /\ UNCHANGED <<processVars, requestVars, callVars>>

\* Faulty variant, for comparison: the pipeline goes on with no documents
RetrievedDirectlyProceeds(planId, outcome) ==
    /\ plan[planId].pc = "retrievingDirectly"
    /\ CASE outcome = "documents" -> PreparePrompt(planId, "direct")
         [] outcome = "empty" -> PreparePrompt(planId, "empty")
         [] outcome = "throws" ->
              Caught(planId, "Failed to retrieve documents from database")
    /\ UNCHANGED <<workoutPlanProgress, io, sockets, rooms, joins, lastJoin, uploadVars>>
    /\ UNCHANGED <<processVars, requestVars, callVars>>

\* await getDocumentsDirectlyFromSupabase returns or throws
RetrievedDirectly(planId, outcome) ==
    /\ plan[planId].pc = "retrievingDirectly"
    /\ CASE outcome = "documents" -> PreparePrompt(planId, "direct")
         [] outcome = "empty" ->
              /\ SetHub(emitWorkoutPlanError(Hub, planId, noDocumentsError(planId)))
              /\ plan' = [plan EXCEPT ![planId].pc = "done",
                                      ![planId].documents = "empty"]
         [] outcome = "throws" ->
              Caught(planId, "Failed to retrieve documents from database")
    /\ UNCHANGED <<workoutPlanProgress, io, sockets, rooms, joins, lastJoin, uploadVars>>
    /\ UNCHANGED <<processVars, requestVars, callVars>>

\* await getTrainingPromptTemplate returns or throws
PromptLoaded(planId, outcome) ==
    /\ plan[planId].pc = "loadingPrompt"
    /\ CASE outcome = "ok" ->
              /\ SetHub(emitWorkoutPlanProgress(Hub, planId,
                    stepData(planId, 40, "Generating personalized workout plan with AI")))
              /\ plan' = [plan EXCEPT ![planId].pc = "streaming"]
         [] outcome = "throws" ->
              Caught(planId, "Failed to load training prompt template")
    /\ UNCHANGED <<workoutPlanProgress, io, sockets, rooms, joins, lastJoin, uploadVars>>
    /\ UNCHANGED <<processVars, requestVars, callVars>>

\* await getCompleteJsonResponse returns or throws; extracted tells whether
\* extractJsonFromText finds an object in the response
ResponseReceived(planId, outcome, extracted) ==
    /\ plan[planId].pc = "streaming"
    /\ CASE outcome = "ok" ->
              /\ SetHub(emitWorkoutPlanProgress(Hub, planId,
                    stepData(planId, 70, "Parsing and validating workout plan response")))
              /\ plan' = [plan EXCEPT
                    ![planId].pc = IF extracted THEN "validating" ELSE "fallingBack",
                    ![planId].parsedPlan = IF extracted THEN "model" ELSE "null",
                    ![planId].parsingError = ~extracted]
         [] outcome = "throws" ->
              /\ extracted = FALSE
              /\ Caught(planId, "Error during LLM response streaming")
    /\ UNCHANGED <<workoutPlanProgress, io, sockets, rooms, joins, lastJoin, uploadVars>>
    /\ UNCHANGED <<processVars, requestVars, callVars>>

\* Faulty variant, for comparison: a plan that failed validation is kept
ValidatedKeepsInvalid(planId, outcome) ==
    /\ plan[planId].pc = "validating"
    /\ CASE outcome = "valid" ->
              plan' = [plan EXCEPT ![planId].pc = "saving", ![planId].finalPlan = "model"]
         [] outcome \in {"invalid", "throws"} ->
              plan' = [plan EXCEPT ![planId].pc = "saving", ![planId].finalPlan = "model",
                                   ![planId].validationError = TRUE]
    /\ UNCHANGED <<workoutPlanProgress, hubVars, uploadVars>>
    /\ UNCHANGED <<processVars, requestVars, callVars>>

\* await validateWorkoutPlan(parsedPlan) returns true or false, or throws
Validated(planId, outcome) ==
    /\ plan[planId].pc = "validating"
    /\ CASE outcome = "valid" ->
              plan' = [plan EXCEPT ![planId].pc = "saving", ![planId].finalPlan = "model"]
         [] outcome \in {"invalid", "throws"} ->
              plan' = [plan EXCEPT ![planId].pc = "fallingBack",
                                   ![planId].validationError = TRUE]
    /\ UNCHANGED <<workoutPlanProgress, hubVars, uploadVars>>
    /\ UNCHANGED <<processVars, requestVars, callVars>>

\* await generateMinimalValidPlan returns
FellBack(planId) ==
    /\ plan[planId].pc = "fallingBack"
    /\ plan' = [plan EXCEPT ![planId].pc = "saving", ![planId].finalPlan = "fallback"]
    /\ UNCHANGED <<workoutPlanProgress, hubVars, uploadVars>>
    /\ UNCHANGED <<processVars, requestVars, callVars>>

\* Faulty variant, for comparison: a progress event follows the terminal event
SavedThenProgress(planId, outcome) ==
    /\ plan[planId].pc = "saving"
    /\ LET h1 == IF outcome = "ok"
                 THEN emitWorkoutPlanComplete(Hub, planId,
                                              completionData(planId, plan[planId]))
                 ELSE emitWorkoutPlanError(Hub, planId, saveError(planId))
           h2 == emitWorkoutPlanProgress(h1, planId,
                    [planId |-> planId, progress |-> 100, step |-> "Done"])
       IN SetHub(h2)
    /\ plan' = [plan EXCEPT ![planId].pc = "done"]
    /\ UNCHANGED <<workoutPlanProgress, io, sockets, rooms, joins, lastJoin, uploadVars>>
    /\ UNCHANGED <<processVars, requestVars, callVars>>

\* Faulty variant, for comparison: the completion is published although the save failed
SavedCompletesAnyway(planId, outcome) ==
    /\ plan[planId].pc = "saving"
    /\ SetHub(emitWorkoutPlanComplete(Hub, planId, completionData(planId, plan[planId])))
    /\ plan' = [plan EXCEPT ![planId].pc = "done"]
    /\ UNCHANGED <<workoutPlanProgress, io, sockets, rooms, joins, lastJoin, uploadVars>>
    /\ UNCHANGED <<processVars, requestVars, callVars>>

\* await saveWorkoutPlan returns or throws
Saved(planId, outcome) ==
    /\ plan[planId].pc = "saving"
    /\ CASE outcome = "ok" ->
              SetHub(emitWorkoutPlanComplete(Hub, planId,
                                             completionData(planId, plan[planId])))
         [] outcome = "throws" ->
              SetHub(emitWorkoutPlanError(Hub, planId, saveError(planId)))
    /\ plan' = [plan EXCEPT ![planId].pc = "done"]
    /\ UNCHANGED <<workoutPlanProgress, io, sockets, rooms, joins, lastJoin, uploadVars>>
    /\ UNCHANGED <<processVars, requestVars, callVars>>

\* ---------------------------------------------------------------- generation service, registry-writing variant
\* The variant of workoutPlanService whose own emitWorkoutPlanProgress keeps the
\* registry and publishes through getIO(), with the controller that awaits it.
NotInitializedMsg ==
    "Socket.IO not initialized. Call initSocketIO first."

\* initSocketIO(server)
InitSocketIO ==
    /\ ~io
    /\ io' = TRUE
    /\ UNCHANGED <<sockets, rooms, inbox, published, joins, lastJoin>>
    /\ UNCHANGED <<uploadVars, planVars>>
    /\ UNCHANGED <<processVars, requestVars, callVars>>

ServiceState == [map |-> workoutPlanProgress, hub |-> Hub, threw |-> FALSE]

\* emitWorkoutPlanProgress of the service: merge data into the record, store it,
\* then getIO(), which throws when there is no server, and the emits. A call after
\* a throw in the same block is not made. data.status is "none" when not given.
ServiceEmitWorkoutPlanProgress(s, planId, data) ==
    IF s.threw THEN s
    ELSE LET currentProgress ==
                 IF planId \in DOMAIN s.map THEN s.map[planId]
                 ELSE [planId |-> planId, status |-> "queued", progress |-> 0,
                       step |-> "Initializing"]
             updatedProgress == Spread(currentProgress, data)
             room == WorkoutPlanRoom(planId)
             h1 == RoomEmit(s.hub, room, "workoutPlanProgress", updatedProgress)
             h2 == IF "status" \in DOMAIN data /\ data.status = "completed"
                   THEN RoomEmit(h1, room, "workoutPlanComplete", updatedProgress)
                   ELSE IF "status" \in DOMAIN data /\ data.status = "failed"
                   THEN RoomEmit(h1, room, "workoutPlanError", updatedProgress)
                   ELSE h1
         IN [map |-> MapSet(s.map, planId, updatedProgress),
             hub |-> IF ~io THEN s.hub ELSE h2,
             threw |-> ~io]

failedData(message) ==
    [status |-> "failed", progress |-> 0, step |-> "Error generating workout plan",
     error |-> message]

\* The responses of the awaiting createWorkoutPlan: after the promise resolved,
\* after it rejected, and for a body that fails the first or the second check
created(planId, result) ==
    [code |-> 201,
     body |-> [planId |-> planId, message |-> "Workout plan generation initiated",
               status |-> "queued", plan |-> result]]

internalError(message) ==
    [code |-> 500, body |-> [error |-> "Internal Server Error", message |-> message]]

queryRequired ==
    [code |-> 400,
     body |-> [error |-> "Bad Request",
               message |-> "Query is required and must be a string"]]

fileIdRequired ==
    [code |-> 400,
     body |-> [error |-> "Bad Request", message |-> "At least one fileId is required"]]

\* The catch block of the service's generateWorkoutPlan: the failed status is
\* emitted and the error thrown again; the promise rejects with that error, or with
\* the one the emit in the catch block throws. The controller answers 500.
ServiceCatch(s, planId, message) ==
    LET c == ServiceEmitWorkoutPlanProgress([s EXCEPT !.threw = FALSE], planId,
                                            failedData(message))
    IN /\ workoutPlanProgress' = c.map
       /\ SetHub(c.hub)
       /\ plan' = [plan EXCEPT ![planId].pc = "rejected",
                               ![planId].rejected =
                                   IF c.threw THEN NotInitializedMsg ELSE message]
       /\ answer' = internalError(IF c.threw THEN NotInitializedMsg ELSE message)

\* The end of a stretch of the try block whose emits gave s
ServiceTry(s, planId, continued) ==
    IF s.threw
    THEN ServiceCatch(s, planId, NotInitializedMsg)
    ELSE /\ workoutPlanProgress' = s.map
         /\ SetHub(s.hub)
         /\ plan' = continued
         /\ answer' = IF continued[planId].pc = "resolved"
                      THEN created(planId, continued[planId].finalPlan)
                      ELSE answer

\* createWorkoutPlan of the awaiting controller with a body that fails a check:
\* the 400 of the first failing check, and nothing else
ServiceCreateWorkoutPlanRejects(input) ==
    /\ ~ServiceValidInput(input)
    /\ answer' = IF ~Truthy(input.query) \/ input.query = "number"
                 THEN queryRequired ELSE fileIdRequired
    /\ UNCHANGED <<hubVars, uploadVars, planVars, processVars, callVars>>

\* createWorkoutPlan of the awaiting controller with a valid body: generateWorkoutPlan
\* runs up to its first await (the similarity search)
ServiceCreateWorkoutPlan(planId, input) ==
    /\ ServiceValidInput(input)
    /\ plan[planId].pc = "idle"
    /\ LET s1 == ServiceEmitWorkoutPlanProgress(ServiceState, planId,
                    [status |-> "queued", progress |-> 0,
                     step |-> "Initializing workout plan generation"])
           s2 == ServiceEmitWorkoutPlanProgress(s1, planId,
                    [status |-> "generating", progress |-> 10,
                     step |-> "Retrieving relevant documents"])
       IN ServiceTry(s2, planId, [plan EXCEPT ![planId].pc = "serviceRetrieving"])
    /\ UNCHANGED <<io, sockets, rooms, joins, lastJoin, uploadVars>>
    /\ UNCHANGED <<processVars, callVars>>

\* await getDocumentsFromFileIds returns or throws
ServiceRetrieved(planId, outcome) ==
    /\ plan[planId].pc = "serviceRetrieving"
    /\ CASE outcome = "documents" ->
              ServiceTry(ServiceEmitWorkoutPlanProgress(ServiceState, planId,
                            [progress |-> 30,
                             step |-> "Creating workout plan with retrieved knowledge"]),
                         planId, [plan EXCEPT ![planId].pc = "serviceLoadingPrompt"])
         [] outcome = "empty" ->
              ServiceCatch(ServiceState, planId,
                           "No relevant documents found for the provided file IDs")
         [] outcome = "throws" ->
              ServiceCatch(ServiceState, planId, "Failed to retrieve documents by file IDs")
    /\ UNCHANGED <<io, sockets, rooms, joins, lastJoin, uploadVars>>
    /\ UNCHANGED <<processVars, callVars>>

\* await getTrainingPromptTemplate returns or throws
ServicePromptLoaded(planId, outcome) ==
    /\ plan[planId].pc = "serviceLoadingPrompt"
    /\ CASE outcome = "ok" ->
              ServiceTry(ServiceEmitWorkoutPlanProgress(ServiceState, planId,
                            [progress |-> 50,
                             step |-> "Generating personalized workout plan"]),
                         planId, [plan EXCEPT ![planId].pc = "serviceStreaming"])
         [] outcome = "throws" ->
              ServiceCatch(ServiceState, planId, "Failed to load training prompt template")
    /\ UNCHANGED <<io, sockets, rooms, joins, lastJoin, uploadVars>>
    /\ UNCHANGED <<processVars, callVars>>

\* await getCompleteJsonResponse returns or throws; extracted tells whether
\* extractJsonFromText finds an object in the response
ServiceResponseReceived(planId, outcome, extracted) ==
    /\ plan[planId].pc = "serviceStreaming"
    /\ CASE outcome = "ok" ->
              ServiceTry(ServiceEmitWorkoutPlanProgress(ServiceState, planId,
                            [progress |-> 80, step |-> "Validating workout plan"]),
                         planId,
                         [plan EXCEPT
                            ![planId].pc = IF extracted THEN "serviceValidating"
                                           ELSE "serviceParseFallback",
                            ![planId].parsedPlan = IF extracted THEN "model" ELSE "null"])
         [] outcome = "throws" ->
              /\ extracted = FALSE
              /\ ServiceCatch(ServiceState, planId, "model stream failed")
    /\ UNCHANGED <<io, sockets, rooms, joins, lastJoin, uploadVars>>
    /\ UNCHANGED <<processVars, callVars>>

\* await generateMinimalValidPlan returns, after the extraction failed
ServiceParseFellBack(planId) ==
    /\ plan[planId].pc = "serviceParseFallback"
    /\ plan' = [plan EXCEPT ![planId].pc = "serviceValidating",
                            ![planId].parsedPlan = "fallback"]
    /\ UNCHANGED <<workoutPlanProgress, hubVars, uploadVars>>
    /\ UNCHANGED <<processVars, requestVars, callVars>>

completedData(parsedPlan) ==
    [status |-> "completed", progress |-> 100,
     step |-> "Workout plan generation completed", result |-> parsedPlan]

\* await validateWorkoutPlan(parsedPlan) returns true or false
ServiceValidated(planId, outcome) ==
    /\ plan[planId].pc = "serviceValidating"
    /\ CASE outcome = "valid" ->
              ServiceTry(ServiceEmitWorkoutPlanProgress(ServiceState, planId,
                            completedData(plan[planId].parsedPlan)),
                         planId, [plan EXCEPT ![planId].pc = "resolved",
                                              ![planId].finalPlan = plan[planId].parsedPlan])
         [] outcome = "invalid" ->
              /\ plan' = [plan EXCEPT ![planId].pc = "serviceFallingBack"]
              /\ UNCHANGED <<workoutPlanProgress, inbox, published, answer>>
    /\ UNCHANGED <<io, sockets, rooms, joins, lastJoin, uploadVars>>
    /\ UNCHANGED <<processVars, callVars>>

\* await generateMinimalValidPlan returns, after the validation failed
ServiceFellBack(planId) ==
    /\ plan[planId].pc = "serviceFallingBack"
    /\ ServiceTry(ServiceEmitWorkoutPlanProgress(ServiceState, planId,
                     completedData("fallback")),
                  planId, [plan EXCEPT ![planId].pc = "resolved",
                                       ![planId].parsedPlan = "fallback",
                                       ![planId].finalPlan = "fallback"])
    /\ UNCHANGED <<io, sockets, rooms, joins, lastJoin, uploadVars>>
    /\ UNCHANGED <<processVars, callVars>>

\* ---------------------------------------------------------------- specification
\* The registries, the rooms and the requests when the modules have been loaded
InitState ==
    /\ sockets = [c \in Conns |-> "fresh"]
    /\ rooms = [r \in RoomNames |-> {}]
    /\ inbox = [c \in Conns |-> [r \in RoomNames |-> <<>>]]
    /\ published = [r \in RoomNames |-> <<>>]
    /\ joins = 0
    /\ lastJoin = NoJoin
    /\ uploadProgressMap = EmptyMap
    /\ upload = [i \in Ids |-> [pc |-> "idle", sent |-> 0, expected |-> 0, outcome |-> "none"]]
    /\ cleanupTimers = {}
    /\ workoutPlanProgress = EmptyMap
    /\ plan = [i \in Ids |-> [pc |-> "idle", parsedPlan |-> "null", finalPlan |-> "none",
                              parsingError |-> FALSE, validationError |-> FALSE,
                              rejected |-> "none", documents |-> "none"]]
    /\ clock = 0
    /\ processing = <<>>
    /\ pendingFiles = EmptyMap
    /\ fileRecords = <<>>
    /\ tempFiles = {}
    /\ vectorStore = {}
    /\ ingest = EmptyMap
    /\ answer = NoAnswer
    /\ responseText = <<>>
    /\ parsedJson = NotCalled
    /\ retrieval = NotCalled

\* index.ts has called initSocketIO before the server accepts a request
Init ==
    /\ io = TRUE
    /\ InitState

\* socketService.ts as loaded: let io = null, until initSocketIO is called
InitModule ==
    /\ io = FALSE
    /\ InitState

Outcomes3 == {"documents", "empty", "throws"}

HubNext ==
    \/ \E c \in Conns : Connect(c)
    \/ \E c \in Conns : Disconnect(c)
    \/ \E c \in Conns, i \in Ids : JoinUploadRoom(c, i)
    \/ \E c \in Conns, i \in Ids : LeaveUploadRoom(c, i)
    \/ \E c \in Conns, i \in Ids : JoinWorkoutPlanRoom(c, i)
    \/ \E c \in Conns, i \in Ids : LeaveWorkoutPlanRoom(c, i)

UploadNext ==
    \/ \E i \in Ids, e \in {0, MaxBytes} : StartUpload(i, e)
    \/ \E i \in Ids, b \in 1..MaxBytes : FormProgress(i, b)
    \/ \E i \in Ids : ParseError(i)
    \/ \E i \in Ids : ParseNoFile(i)
    \/ \E i \in Ids, m \in MimeTypes, x \in Extensions : ParseRejectedType(i, m, x)
    \/ \E i \in Ids, m \in MimeTypes, x \in Extensions : UploadFileThrows(i, m, x)
    \/ \E i \in Ids, m \in MimeTypes, x \in Extensions : UploadFileUnsupported(i, m, x)
    \/ \E i \in Ids, m \in MimeTypes, x \in Extensions : UploadFileCompletes(i, m, x)
    \/ \E i \in Ids : CleanupTimerFires(i)

PlanNext ==
    \/ \E i \in Ids, input \in Inputs : CreateWorkoutPlan(i, input)
    \/ \E i \in Ids, o \in Outcomes3 : Retrieved(i, o)
    \/ \E i \in Ids, o \in Outcomes3 : RetrievedDirectly(i, o)
    \/ \E i \in Ids, o \in {"ok", "throws"} : PromptLoaded(i, o)
    \/ \E i \in Ids, o \in {"ok", "throws"}, x \in BOOLEAN : ResponseReceived(i, o, x)
    \/ \E i \in Ids, o \in {"valid", "invalid", "throws"} : Validated(i, o)
    \/ \E i \in Ids : FellBack(i)
    \/ \E i \in Ids, o \in {"ok", "throws"} : Saved(i, o)

Next == HubNext \/ UploadNext \/ PlanNext

Spec == Init /\ [][Next]_vars

\* The hub with upload sessions only, and with generation jobs only
NextUpload == HubNext \/ UploadNext

SpecUpload == Init /\ [][NextUpload]_vars

NextPlan == HubNext \/ PlanNext

SpecPlan == Init /\ [][NextPlan]_vars


\* The hub, from the loading of the modules, with the registry-writing service
ServiceNext ==
    \/ \E i \in Ids, input \in Inputs : ServiceCreateWorkoutPlan(i, input)
    \/ \E i \in Ids, o \in Outcomes3 : ServiceRetrieved(i, o)
    \/ \E i \in Ids, o \in {"ok", "throws"} : ServicePromptLoaded(i, o)
    \/ \E i \in Ids, o \in {"ok", "throws"}, x \in BOOLEAN : ServiceResponseReceived(i, o, x)
    \/ \E i \in Ids : ServiceParseFellBack(i)
    \/ \E i \in Ids, o \in {"valid", "invalid"} : ServiceValidated(i, o)
    \/ \E i \in Ids : ServiceFellBack(i)

NextService == InitSocketIO \/ HubNext \/ ServiceNext

SpecService == InitModule /\ [][NextService]_vars

\* createWorkoutPlan of either controller with any body, valid or not, and the
\* jobs it starts
RequestNext ==
    \/ \E input \in Inputs : CreateWorkoutPlanRejects(input)
    \/ \E input \in Inputs : ServiceCreateWorkoutPlanRejects(input)

NextRequest == PlanNext \/ ServiceNext \/ RequestNext

SpecRequest == Init /\ [][NextRequest]_vars


\* The upload registry under direct calls
RegistryNext ==
    \/ \E i \in Ids : CallInitUploadProgress(i)
    \/ \E i \in Ids, b \in 0..MaxBytes, e \in {0, MaxBytes} :
          CallUpdateUploadProgress(i, b, e)
    \/ \E i \in Ids, x \in Extensions : CallCompleteUpload(i, x)
    \/ \E i \in Ids, m \in {"parse error", "No file uploaded"} : CallFailUpload(i, m)
    \/ \E i \in Ids : CallCleanupUploadProgress(i)
    \/ \E i \in Ids : CleanupTimerFires(i)

SpecRegistry == Init /\ [][RegistryNext]_vars

\* Upload sessions and the processing of their files, with the clock
ProcessNext ==
    \/ Tick
    \/ \E i \in Ids : ProcessFiles(i)
    \/ \E j \in 1..MaxProcessing, o \in {"ok", "throws"} : FileProcessed(j, o)

NextProcess == UploadNext \/ ProcessNext

SpecProcess == Init /\ [][NextProcess]_vars

\* extractJsonFromText on the response texts
ExtractNext ==
    \/ /\ responseText = <<>>
       /\ \E t \in Texts : ResponseText(t)
    \/ ExtractJsonFromText

SpecExtract == Init /\ [][ExtractNext]_vars

\* The document retrieval of a generation job on the tables of up to MaxDocs rows
RetrievalNext ==
    /\ retrieval = NotCalled
    /\ \E fileIds \in CallerFileIds, store \in Stores, topK \in 1..MaxTopK :
          GetDocuments(fileIds, store, topK)

SpecRetrieval == Init /\ [][RetrievalNext]_vars

\* Upload sessions and processing jobs, with processFileAndAddToVectorStore taken
\* await by await
IngestNext ==
    \/ Tick
    \/ \E i \in Ids : ProcessFiles(i)
    \/ \E j \in 1..MaxProcessing, o \in {"ok", "throws"} : ProcessFile(j, o)
    \/ \E j \in 1..MaxProcessing, o \in {"ok", "throws"} : SplitTextIntoChunks(j, o)
    \/ \E j \in 1..MaxProcessing, o \in {"ok", "throws"} : AddDocumentToVectorStore(j, o)
    \/ \E j \in 1..MaxProcessing : FileIngested(j)

NextIngest == UploadNext \/ IngestNext

SpecIngest == Init /\ [][NextIngest]_vars

\* Upload sessions with files of given sizes, and the processing of the files
SizeNext ==
    \E i \in Ids, size \in FileSizes : ParseTooLarge(i, size)

NextSize == UploadNext \/ ProcessNext \/ SizeNext

SpecSize == Init /\ [][NextSize]_vars

\* processFilesInBackground under direct calls with batches of up to MaxFiles files
BatchNext ==
    \/ \E i \in Ids, p \in BatchIds, n \in 1..MaxFiles :
          CallProcessFilesInBackground(i, p, n)
    \/ \E j \in 1..Cardinality(BatchIds), o \in {"ok", "throws"} : FileProcessed(j, o)

SpecBatch == Init /\ [][BatchNext]_vars

\* One job of each kind side by side: an upload session, a generation job, and one
\* batch of MaxFiles files
OneBatchNext ==
    \/ \E i \in Ids : CallProcessFilesInBackground(i, "batch-1", MaxFiles)
    \/ \E o \in {"ok", "throws"} : FileProcessed(1, o)

NextProgress == UploadNext \/ PlanNext \/ OneBatchNext

SpecProgress == Init /\ [][NextProgress]_vars

\* Two generation jobs, an upload session and a batch side by side. The call of
\* getCompleteJsonResponse of the first job never settles: the code sets no
\* timeout on it, so no step of the job follows. The awaits of the other jobs
\* settle, and the event loop runs every continuation that is ready.
StalledJob == "a"
OtherJob == "b"
JobIds == {StalledJob, OtherJob}

\* The upload id the batch belongs to: not the id of the upload session
BatchUploadId == "b"

JobRooms ==
    RoomNames \cup {WorkoutPlanRoom(p) : p \in JobIds} \cup {UploadRoom(BatchUploadId)}

InitJobs ==
    /\ io = TRUE
    /\ sockets = [c \in Conns |-> "fresh"]
    /\ rooms = [r \in JobRooms |-> {}]
    /\ inbox = [c \in Conns |-> [r \in JobRooms |-> <<>>]]
    /\ published = [r \in JobRooms |-> <<>>]
    /\ joins = 0
    /\ lastJoin = NoJoin
    /\ uploadProgressMap = EmptyMap
    /\ upload = [i \in Ids |-> [pc |-> "idle", sent |-> 0, expected |-> 0, outcome |-> "none"]]
    /\ cleanupTimers = {}
    /\ workoutPlanProgress = EmptyMap
    /\ plan = [i \in JobIds |-> [pc |-> "idle", parsedPlan |-> "null", finalPlan |-> "none",
                                 parsingError |-> FALSE, validationError |-> FALSE,
                                 rejected |-> "none", documents |-> "none"]]
    /\ clock = 0
    /\ processing = <<>>
    /\ pendingFiles = EmptyMap
    /\ fileRecords = <<>>
    /\ tempFiles = {}
    /\ vectorStore = {}
    /\ ingest = EmptyMap
    /\ answer = NoAnswer
    /\ responseText = <<>>
    /\ parsedJson = NotCalled
    /\ retrieval = NotCalled

\* The first job is at the await that never settles
Stalled ==
    plan[StalledJob].pc = "streaming"

\* The steps of generateWorkoutPlan before the await of getCompleteJsonResponse
StepsToStreaming(p) ==
    \/ \E o \in Outcomes3 : Retrieved(p, o)
    \/ \E o \in Outcomes3 : RetrievedDirectly(p, o)
    \/ \E o \in {"ok", "throws"} : PromptLoaded(p, o)

\* Faulty variant, for comparison: the pending call keeps the continuations of
\* the other jobs from running
StepsFromStreamingBlocked(p) ==
    /\ ~Stalled
    /\ \/ \E o \in {"ok", "throws"}, x \in BOOLEAN : ResponseReceived(p, o, x)
       \/ \E o \in {"valid", "invalid", "throws"} : Validated(p, o)
       \/ FellBack(p)
       \/ \E o \in {"ok", "throws"} : Saved(p, o)

\* The steps of generateWorkoutPlan from that await on
StepsFromStreaming(p) ==
    \/ \E o \in {"ok", "throws"}, x \in BOOLEAN : ResponseReceived(p, o, x)
    \/ \E o \in {"valid", "invalid", "throws"} : Validated(p, o)
    \/ FellBack(p)
    \/ \E o \in {"ok", "throws"} : Saved(p, o)

\* The steps of an upload session after its start
UploadSteps ==
    \/ \E i \in Ids, b \in 1..MaxBytes : FormProgress(i, b)
    \/ \E i \in Ids : ParseError(i)
    \/ \E i \in Ids : ParseNoFile(i)
    \/ \E i \in Ids, m \in MimeTypes, x \in Extensions : ParseRejectedType(i, m, x)
    \/ \E i \in Ids, m \in MimeTypes, x \in Extensions : UploadFileThrows(i, m, x)
    \/ \E i \in Ids, m \in MimeTypes, x \in Extensions : UploadFileUnsupported(i, m, x)
    \/ \E i \in Ids, m \in MimeTypes, x \in Extensions : UploadFileCompletes(i, m, x)
    \/ \E i \in Ids : CleanupTimerFires(i)

BatchSteps ==
    \E o \in {"ok", "throws"} : FileProcessed(1, o)

\* The other jobs are started while the first job is stalled
NextJobs ==
    \/ \E input \in Inputs : CreateWorkoutPlan(StalledJob, input)
    \/ StepsToStreaming(StalledJob)
    \/ Stalled /\ \E input \in Inputs : CreateWorkoutPlan(OtherJob, input)
    \/ StepsToStreaming(OtherJob)
    \/ StepsFromStreaming(OtherJob)
    \/ Stalled /\ \E i \in Ids, e \in {0, MaxBytes} : StartUpload(i, e)
    \/ UploadSteps
    \/ Stalled /\ CallProcessFilesInBackground(BatchUploadId, "batch-1", MaxFiles)
    \/ BatchSteps

SpecJobs ==
    /\ InitJobs
    /\ [][NextJobs]_vars
    /\ WF_vars(StepsToStreaming(OtherJob))
    /\ WF_vars(StepsFromStreaming(OtherJob))
    /\ WF_vars(UploadSteps)
    /\ WF_vars(BatchSteps)

\* ================================================================ properties
TerminalNames == {"uploadComplete", "uploadError", "workoutPlanComplete", "workoutPlanError"}

UploadNames == {"uploadProgress", "uploadComplete", "uploadError"}

\* The emits of terminal events among the first upto emits to the room
Terminals(room, upto) ==
    {k \in 1..upto : published[room][k].name \in TerminalNames}

AllTerminals(room) ==
    Terminals(room, Len(published[room]))

\* The copies of the room's k-th emit that socket c has been sent
Copies(c, room, k) ==
    Cardinality({i \in 1..Len(inbox[c][room]) : inbox[c][room][i].k = k})

\* The events the last join replayed to the joining socket
Replayed ==
    SubSeq(inbox[lastJoin.conn][lastJoin.room], lastJoin.at + 1, lastJoin.at + lastJoin.n)

ReplayedNames ==
    [i \in 1..Len(Replayed) |-> Replayed[i].name]

SnapshotName(terminalName) ==
    IF terminalName \in UploadNames THEN "uploadProgress" ELSE "workoutPlanProgress"

\* The value of field f in the latest of the first upto emits to the room that has it
Latest(room, upto, f) ==
    LET ks == {k \in 1..upto : f \in DOMAIN published[room][k].payload}
        last == CHOOSE k \in ks : \A k2 \in ks : k2 <= k
    IN published[room][last].payload[f]

\* C1: every generation job publishes at most one terminal event (workoutPlanComplete
\* or workoutPlanError), and exactly one once generateWorkoutPlan has returned, on
\* every path: no documents, a throwing await, a failed save, success.
C1_OneTerminalPerGeneration ==
    \A p \in Ids :
        LET t == AllTerminals(WorkoutPlanRoom(p))
        IN /\ Cardinality(t) <= 1
           /\ (plan[p].pc = "done") <=> (Cardinality(t) = 1)

\* A job whose save failed after a final plan existed: one workoutPlanError
C1_Witness ==
    \E p \in Ids :
        /\ plan[p].pc = "done"
        /\ plan[p].finalPlan = "fallback"
        /\ \E k \in AllTerminals(WorkoutPlanRoom(p)) :
              published[WorkoutPlanRoom(p)][k].payload.step = "Failed to save workout plan"

\* C2: a join to the topic of a job that was terminal at the join is answered with
\* that job's terminal event, preceded by at most one snapshot, and nothing else.
C2_TerminalReplayedOnJoin ==
    (lastJoin # NoJoin /\ Terminals(lastJoin.room, lastJoin.pubLen) # {}) =>
        \E k \in Terminals(lastJoin.room, lastJoin.pubLen) :
            LET T == published[lastJoin.room][k].name
            IN ReplayedNames \in {<<T>>, <<SnapshotName(T), T>>}

\* C3: a joinWorkoutPlanRoom for a job createWorkoutPlan has accepted is answered
\* with a workoutPlanProgress carrying the job's latest status, progress and step,
\* followed by the terminal event if the job was terminal.
C3_SnapshotOnJoin ==
    \A p \in Ids :
        (lastJoin.room = WorkoutPlanRoom(p) /\ lastJoin.pubLen >= 1) =>
            /\ lastJoin.n >= 1
            /\ Replayed[1].name = "workoutPlanProgress"
            /\ \A f \in {"status", "progress", "step"} :
                  Replayed[1].payload[f] = Latest(lastJoin.room, lastJoin.pubLen, f)
            /\ \A k \in Terminals(lastJoin.room, lastJoin.pubLen) :
                  /\ lastJoin.n = 2
                  /\ Replayed[2].name = published[lastJoin.room][k].name

\* C4: once an upload record is terminal, no step makes it non-terminal or drops
\* its error or result while the record exists.
C4_TerminalStays ==
    [][\A i \in Ids :
          (i \in DOMAIN uploadProgressMap /\ i \in DOMAIN uploadProgressMap') =>
              /\ uploadProgressMap[i].completed => uploadProgressMap'[i].completed
              /\ \A f \in {"error", "resultData"} :
                    f \in DOMAIN uploadProgressMap[i] =>
                        /\ f \in DOMAIN uploadProgressMap'[i]
                        /\ uploadProgressMap'[i][f] = uploadProgressMap[i][f]]_vars

\* C5: no upload record is completed and has an error.
C5_CompletedXorFailed ==
    \A i \in DOMAIN uploadProgressMap :
        ~(uploadProgressMap[i].completed /\ "error" \in DOMAIN uploadProgressMap[i])

\* C6: every upload job publishes at most one terminal event (uploadComplete or
\* uploadError), and exactly one once the request has been answered, whichever of
\* the middleware and the controller ends it.
C6_OneTerminalPerUpload ==
    \A i \in Ids :
        LET t == AllTerminals(UploadRoom(i))
        IN /\ Cardinality(t) <= 1
           /\ (upload[i].pc = "done") <=> (Cardinality(t) = 1)

\* An upload the middleware let through and the controller failed
C6_Witness ==
    \E i \in Ids :
        /\ upload[i].outcome = "unsupported"
        /\ \E k \in AllTerminals(UploadRoom(i)) : published[UploadRoom(i)][k].name = "uploadError"

\* The topic of the job an event belongs to, from the event as a client sees it
JobTopic(name, payload) ==
    IF "uploadId" \in DOMAIN payload THEN UploadRoom(payload.uploadId)
    ELSE WorkoutPlanRoom(payload.planId)

C8_ReplayToJoinerOnly ==
    [][joins' # joins =>
          \A d \in Conns : \A r \in RoomNames :
              IF d = lastJoin'.conn /\ r = lastJoin'.room
              THEN /\ Len(inbox'[d][r]) = Len(inbox[d][r]) + lastJoin'.n
                   /\ SubSeq(inbox'[d][r], 1, Len(inbox[d][r])) = inbox[d][r]
              ELSE inbox'[d][r] = inbox[d][r]]_vars

\* A join that replayed the snapshot and a terminal event while another socket was
\* a member of the topic
C8_Witness ==
    /\ lastJoin.n = 2
    /\ \E d \in Conns \ {lastJoin.conn} : d \in rooms[lastJoin.room]

\* C9: no socket is ever sent an event emitted while it was not a member of the
\* topic; a join sends replayed events only: at most one snapshot, first, and
\* otherwise terminal events.
C9_NeverQueued ==
    /\ \A r \in RoomNames : \A k \in 1..Len(published[r]) : \A c \in Conns :
          c \notin published[r][k].members => Copies(c, r, k) = 0
    /\ lastJoin # NoJoin =>
          /\ \A i \in 1..Len(Replayed) :
                /\ Replayed[i].k = 0
                /\ Replayed[i].name \notin TerminalNames => i = 1
          /\ Cardinality({i \in 1..Len(Replayed) : Replayed[i].name \in TerminalNames}) <= 1

\* A socket joined after two emits it was not a member for, and got the snapshot
C9_Witness ==
    /\ lastJoin.pubLen >= 2
    /\ lastJoin.n >= 1
    /\ \A k \in 1..lastJoin.pubLen :
          lastJoin.conn \notin published[lastJoin.room][k].members

C12_PublishWithoutHubIsNoOp ==
    /\ \A p \in Ids : plan[p].rejected # NotInitializedMsg
    /\ \A r \in RoomNames : \A k \in 1..Len(published[r]) :
          published[r][k].members = {} => \A c \in Conns : Copies(c, r, k) = 0

\* C13: initUploadProgress for an id that has a record leaves the record as it was.
C13_DuplicateCreateRejected ==
    [][\A i \in Ids :
          (i \in DOMAIN uploadProgressMap /\ CallInitUploadProgress(i)) =>
              uploadProgressMap'[i] = uploadProgressMap[i]]_vars

\* C14: an update, completion or failure for an id without a record leaves the
\* registry without a record for the id.
C14_UnknownIdIsLostUpdate ==
    [][\A i \in Ids :
          (i \notin DOMAIN uploadProgressMap /\ ~CallInitUploadProgress(i)) =>
              i \notin DOMAIN uploadProgressMap']_vars

\* C15: an upload that was failed and had its cleanup scheduled is found by a lookup,
\* with its error, as long as the timer is pending, and is not found once the timer
\* has fired.
C15_RetentionWindow ==
    \A i \in Ids :
        upload[i].outcome = "threw" =>
            IF i \in cleanupTimers
            THEN /\ getUploadProgress(i) # <<>>
                 /\ uploadStatus(i).status = 200
                 /\ "error" \in DOMAIN uploadStatus(i).body
                 /\ uploadStatus(i).body.error = "Unexpected token"
            ELSE /\ getUploadProgress(i) = <<>>
                 /\ uploadStatus(i).status = 404

\* The upload's timer has fired: the lookup answers 404
C15_Witness ==
    \E i \in Ids :
        /\ upload[i].outcome = "threw"
        /\ i \notin cleanupTimers
        /\ uploadStatus(i).status = 404
        /\ Len(published[UploadRoom(i)]) = MaxBytes + 1

\* C16: every upload that has reached a terminal state has its cleanup scheduled,
\* or its record removed already.
C16_CleanupScheduledOnTerminal ==
    \A i \in Ids :
        upload[i].pc = "done" => (i \in cleanupTimers \/ i \notin DOMAIN uploadProgressMap)

\* C17: every upload record has percent = round(bytesReceived / bytesExpected * 100)
\* when bytesExpected > 0, and percent = 0 when bytesExpected = 0.
C17_PercentFormula ==
    \A i \in DOMAIN uploadProgressMap :
        LET rec == uploadProgressMap[i]
        IN rec.percent = IF rec.bytesExpected > 0
                         THEN RoundPercent(rec.bytesReceived, rec.bytesExpected)
                         ELSE 0

\* C18: no two jobs alive at the same time carry the same id: two processing jobs
\* that are both running have different processing ids.
C18_AliveIdsDistinct ==
    \A j, k \in 1..Len(processing) :
        (j # k /\ processing[j].running /\ processing[k].running) =>
            processing[j].processingId # processing[k].processingId

\* C19: generateWorkoutPlan never rejects, and once it has published an error event
\* the job's registry record has status failed and carries the error.
C19_FailureRecorded ==
    \A p \in Ids :
        /\ plan[p].rejected = "none"
        /\ (\E k \in AllTerminals(WorkoutPlanRoom(p)) :
               published[WorkoutPlanRoom(p)][k].name = "workoutPlanError") =>
              /\ getWorkoutPlanStatus(p) # <<>>
              /\ getWorkoutPlanStatus(p)[1].status = "failed"
              /\ "error" \in DOMAIN getWorkoutPlanStatus(p)[1]

\* C20: the direct lookup runs only after the primary retrieval returned nothing;
\* when it returns nothing too, the job has ended, its last event is a
\* workoutPlanError with status failed and the no-documents message, no
\* workoutPlanComplete was published and the model was not called (the event of
\* progress 40 that precedes the call was never published).
C20_NoDocumentsFails ==
    /\ [](\A p \in Ids :
            plan[p].documents = "empty" =>
                LET log == published[WorkoutPlanRoom(p)]
                IN /\ plan[p].pc = "done"
                   /\ Len(log) >= 1
                   /\ log[Len(log)].name = "workoutPlanError"
                   /\ log[Len(log)].payload.status = "failed"
                   /\ \E rest \in {" for the provided file IDs after retrieval attempts. Cannot generate plan."} :
                         log[Len(log)].payload.error = NoDocumentsPrefix \o rest
                   /\ \A k \in 1..Len(log) :
                         /\ log[k].name # "workoutPlanComplete"
                         /\ log[k].payload.progress # 40)
    /\ [][\A p \in Ids :
             (plan[p].pc # "retrievingDirectly" /\ plan'[p].pc = "retrievingDirectly") =>
                 Retrieved(p, "empty")]_vars

\* Both retrievals returned nothing while a socket was in the job's room: the
\* socket's last event is the error
C20_Witness ==
    \E p \in Ids : \E c \in Conns :
        /\ plan[p].documents = "empty"
        /\ Len(inbox[c][WorkoutPlanRoom(p)]) = 4
        /\ inbox[c][WorkoutPlanRoom(p)][4].name = "workoutPlanError"

\* The completion events published for a generation job
Completions(p) ==
    {k \in 1..Len(published[WorkoutPlanRoom(p)]) :
        published[WorkoutPlanRoom(p)][k].name = "workoutPlanComplete"}

\* C21: the result of a completion event is the parsed model output exactly when
\* the extraction gave an object and the validation returned true, and is the
\* minimal fallback plan otherwise.
C21_ResultIsModelOrFallback ==
    \A p \in Ids : \A k \in Completions(p) :
        /\ (plan[p].parsedPlan = "model") <=> ~plan[p].parsingError
        /\ published[WorkoutPlanRoom(p)][k].payload.result =
              IF plan[p].parsedPlan = "model" /\ ~plan[p].validationError
              THEN "model" ELSE "fallback"

\* A job completed with the fallback plan after its parsed plan failed validation
C21_Witness ==
    \E p \in Ids : \E k \in Completions(p) :
        /\ plan[p].parsedPlan = "model"
        /\ plan[p].validationError
        /\ published[WorkoutPlanRoom(p)][k].payload.result = "fallback"

\* C22: a completion event has an error and the fallback message exactly when its
\* result is the fallback plan, the success message exactly when its result is the
\* model's output, and no other message.
C22_CompletionTellsFallback ==
    \A p \in Ids : \A k \in Completions(p) :
        LET data == published[WorkoutPlanRoom(p)][k].payload
            isFallback == data.result = "fallback"
        IN /\ data.result \in {"model", "fallback"}
           /\ (data.error # "none") <=> isFallback
           /\ (data.message =
                 "Workout plan generation had issues (parsing or validation failed), using fallback plan.")
                 <=> isFallback
           /\ (data.message = "Workout plan generated and validated successfully.")
                 <=> ~isFallback

\* A completion with the model's own output, and no error
C22_Witness ==
    \E p \in Ids : \E k \in Completions(p) :
        /\ published[WorkoutPlanRoom(p)][k].payload.result = "model"
        /\ published[WorkoutPlanRoom(p)][k].payload.error = "none"

\* The model response of the job has been received (the event of progress 70)
ResponseWasReceived(p) ==
    \E k \in 1..Len(published[WorkoutPlanRoom(p)]) :
        published[WorkoutPlanRoom(p)][k].payload.progress = 70

\* C23: a job whose model response was received ends with a completion event when
\* the save succeeds and with the save's error event, and no completion, when the
\* save fails; nothing else ends it.
C23_CompletedIffSaved ==
    /\ [](\A p \in Ids :
            (ResponseWasReceived(p) /\ plan[p].pc = "done") =>
                LET log == published[WorkoutPlanRoom(p)]
                    last == log[Len(log)]
                IN \/ /\ last.name = "workoutPlanComplete"
                      /\ Cardinality(AllTerminals(WorkoutPlanRoom(p))) = 1
                   \/ /\ last.name = "workoutPlanError"
                      /\ last.payload.step = "Failed to save workout plan"
                      /\ Completions(p) = {})
    /\ [][\A p \in Ids :
             (ResponseWasReceived(p) /\ plan[p].pc # "done" /\ plan'[p].pc = "done") =>
                 LET log == published'[WorkoutPlanRoom(p)]
                 IN /\ Saved(p, "ok") \/ Saved(p, "throws")
                    /\ Saved(p, "ok") <=> log[Len(log)].name = "workoutPlanComplete"
                    /\ Saved(p, "throws") <=> log[Len(log)].name = "workoutPlanError"]_vars

\* The extraction found nothing, the fallback plan was made, and the save failed
C23_Witness ==
    \E p \in Ids :
        /\ plan[p].parsingError
        /\ plan[p].finalPlan = "fallback"
        /\ plan[p].pc = "done"
        /\ Completions(p) = {}

MalformedInput(input) ==
    \/ input.query = "undefined"
    \/ input.fileIds \in {"undefined", "string", "emptyArray"}

\* C25: a request whose query is missing, or whose fileIds is missing, not an
\* array or empty, is answered 400 with an error body and no job id, and leaves
\* the registry, the events and the pipeline untouched; no job starts from it.
C25_MalformedRejected ==
    /\ [](\A input \in Inputs :
            MalformedInput(input) => ~ValidInput(input) /\ ~ServiceValidInput(input))
    /\ [][\A input \in Inputs :
             /\ MalformedInput(input) =>
                    \A p \in Ids : /\ ~CreateWorkoutPlan(p, input)
                                   /\ ~ServiceCreateWorkoutPlan(p, input)
             /\ (/\ MalformedInput(input)
                 /\ \/ CreateWorkoutPlanRejects(input)
                    \/ ServiceCreateWorkoutPlanRejects(input)) =>
                    /\ answer'.code = 400
                    /\ answer'.body.error = "Bad Request"
                    /\ "planId" \notin DOMAIN answer'.body
                    /\ UNCHANGED <<workoutPlanProgress, plan, published, inbox>>]_vars
    /\ [](answer.code = 400 /\ (\A p \in Ids : plan[p].pc = "idle") =>
            /\ workoutPlanProgress = EmptyMap
            /\ \A p \in Ids : published[WorkoutPlanRoom(p)] = <<>>)

\* A malformed request has been answered 400 and no job exists
C25_Witness ==
    /\ answer = badRequest
    /\ \A p \in Ids : plan[p].pc = "idle" /\ published[WorkoutPlanRoom(p)] = <<>>

\* The positions, in the log of its room, of the events that carry the id of job j
JobEvents(j) ==
    LET log == published[UploadRoom(processing[j].uploadId)]
    IN {k \in 1..Len(log) :
           /\ "processingId" \in DOMAIN log[k].payload
           /\ log[k].payload.processingId = processing[j].processingId}

\* Those of a given name
JobEventsNamed(j, name) ==
    {k \in JobEvents(j) : published[UploadRoom(processing[j].uploadId)][k].name = name}

\* The processingError events of job j that name the file f
FileErrors(j, f) ==
    LET log == published[UploadRoom(processing[j].uploadId)]
    IN {k \in JobEventsNamed(j, "processingError") :
           "fileId" \in DOMAIN log[k].payload /\ log[k].payload.fileId = f}

FileSettled(f) == fileRecords[f].status \in {"processed", "error"}

\* C26: a file of a batch that failed has status error with the message and exactly
\* one processingError naming it; the loop has gone on past it, every later file
\* is handled by the end, and the batch ends with exactly one processingComplete,
\* its last event.
C26_FailureDoesNotAbortBatch ==
    \A j \in 1..Len(processing) :
        LET job == processing[j]
        IN /\ \A k \in 1..Len(job.files) :
                fileRecords[job.files[k]].status = "error" =>
                    /\ fileRecords[job.files[k]].error = "processing failed"
                    /\ Cardinality(FileErrors(j, job.files[k])) = 1
                    /\ job.running => job.current > k
                    /\ ~job.running =>
                           \A m \in (k + 1)..Len(job.files) : FileSettled(job.files[m])
           /\ job.running => JobEventsNamed(j, "processingComplete") = {}
           /\ ~job.running =>
                  /\ Cardinality(JobEventsNamed(j, "processingComplete")) = 1
                  /\ \A k \in JobEvents(j) :
                         \A c \in JobEventsNamed(j, "processingComplete") : k <= c

\* A finished batch of two files whose first file failed and whose second was processed
C26_Witness ==
    \E j \in 1..Len(processing) :
        /\ ~processing[j].running
        /\ Len(processing[j].files) = 2
        /\ fileRecords[processing[j].files[1]].status = "error"
        /\ fileRecords[processing[j].files[2]].status = "processed"
        /\ JobEventsNamed(j, "processingComplete") # {}

\* C27: at the end of a batch the processedFiles of its processingComplete plus
\* the number of its per-file processingError events is totalFiles, the number of
\* files of the batch, and every file has status processed or error.
C27_EveryFileAccounted ==
    \A j \in 1..Len(processing) :
        ~processing[j].running =>
            LET job == processing[j]
                log == published[UploadRoom(job.uploadId)]
                errors == UNION {FileErrors(j, job.files[k]) : k \in 1..Len(job.files)}
            IN /\ \A c \in JobEventsNamed(j, "processingComplete") :
                      /\ log[c].payload.totalFiles = Len(job.files)
                      /\ log[c].payload.processedFiles + Cardinality(errors)
                            = log[c].payload.totalFiles
               /\ JobEventsNamed(j, "processingComplete") # {}
               /\ errors = JobEventsNamed(j, "processingError")
               /\ \A k \in 1..Len(job.files) : FileSettled(job.files[k])

\* A finished batch with one file processed and then one file failed
C27_Witness ==
    \E j \in 1..Len(processing) :
        /\ ~processing[j].running
        /\ Len(processing[j].files) = 2
        /\ fileRecords[processing[j].files[1]].status = "processed"
        /\ fileRecords[processing[j].files[2]].status = "error"
        /\ processing[j].processedFiles = 1

\* The files of the batch that ended processed
ProcessedOf(job) ==
    {k \in 1..Len(job.files) : fileRecords[job.files[k]].status = "processed"}

\* The sum of amounts[k] over the positions ks
RECURSIVE SumOver(_, _)
SumOver(amounts, ks) ==
    IF ks = {} THEN 0
    ELSE LET k == CHOOSE x \in ks : TRUE
         IN amounts[k] + SumOver(amounts, ks \ {k})

\* C36: the processingComplete event of a finished batch reports processedFiles
\* equal to the number of files that ended processed, totalChunks and
\* totalCharacters equal to the sums over exactly those files, and a results
\* array with one entry per file of the batch; it is published whatever the
\* outcomes of the files were.
C36_CompleteReportsBatch ==
    \A j \in 1..Len(processing) :
        ~processing[j].running =>
            LET job == processing[j]
                log == published[UploadRoom(job.uploadId)]
            IN /\ JobEventsNamed(j, "processingComplete") # {}
               /\ \A c \in JobEventsNamed(j, "processingComplete") :
                      /\ log[c].payload.processedFiles = Cardinality(ProcessedOf(job))
                      /\ log[c].payload.totalChunks
                            = SumOver([k \in 1..Len(job.files) |-> chunkCount(job.files[k])],
                                      ProcessedOf(job))
                      /\ log[c].payload.totalCharacters
                            = SumOver([k \in 1..Len(job.files) |-> textLength(job.files[k])],
                                      ProcessedOf(job))
                      /\ Len(log[c].payload.results) = Len(job.files)

\* Every chunk of the file is in the vector store
AllChunksAdded(file) ==
    \A i \in 1..chunkCount(file) : [fileId |-> file, chunk |-> i] \in vectorStore

\* The calls of processFileAndAddToVectorStore that throw in this step
ThrowsNow(j) ==
    /\ j \in DOMAIN ingest'
    /\ ingest'[j].pc = "thrown"
    /\ j \notin DOMAIN ingest \/ ingest[j].pc # "thrown"

\* C37: the file at filePath is removed only once every chunk of the file is in
\* the vector store; a step in which extraction, chunking or the adding of a
\* chunk fails removes no file; and no file document is ever removed: the
\* documents of an upload id and the documents of a job only stay or grow.
C37_RemovedOnlyWhenIngested ==
    [][/\ \A file \in tempFiles \ tempFiles' : AllChunksAdded(file)'
       /\ (\E j \in 1..Len(processing) : ThrowsNow(j)) => tempFiles' = tempFiles
       /\ Len(fileRecords') >= Len(fileRecords)
       /\ \A u \in DOMAIN pendingFiles :
             /\ u \in DOMAIN pendingFiles'
             /\ Len(pendingFiles'[u]) >= Len(pendingFiles[u])
             /\ SubSeq(pendingFiles'[u], 1, Len(pendingFiles[u])) = pendingFiles[u]
       /\ \A j \in 1..Len(processing) :
             /\ j \in 1..Len(processing')
             /\ processing'[j].files = processing[j].files]_vars

\* A file was removed after its chunks were added, while another call threw
\* after it had added a chunk of its file
C37_Witness ==
    /\ \E file \in 1..Len(fileRecords) :
          /\ file \notin tempFiles
          /\ chunkCount(file) > 1
          /\ AllChunksAdded(file)
    /\ \E j \in DOMAIN ingest : ingest[j].pc = "thrown" /\ ingest[j].added >= 1

\* The result of the strategies in their order: the parsed interior of the first
\* fenced block, else its parsed repaired interior, and the parsed whole text
\* only for a text with no fenced block; null when these fail
InStrictOrder(t) ==
    LET block == matchCodeBlock(t)
    IN IF block # Null
       THEN IF JSONParse(block.group) # SyntaxError THEN JSONParse(block.group)
            ELSE IF JSONParse(cleanedJson(block.group)) # SyntaxError
                 THEN JSONParse(cleanedJson(block.group))
                 ELSE Null
       ELSE IF JSONParse(t) # SyntaxError THEN JSONParse(t) ELSE Null

\* C38: extractJsonFromText never throws and returns what the strategies give in
\* their strict order: the parsed interior of the first fenced block, else the
\* parsed repaired interior, the parsed whole text only when the text has no
\* fenced block, and no result when every applicable strategy fails.
C38_StrategiesInStrictOrder ==
    parsedJson # NotCalled =>
        /\ parsedJson # SyntaxError
        /\ parsedJson = InStrictOrder(responseText)

\* C35: every document handed to the model, from the primary strategy or from the
\* direct retrieval, has a fileId that is one of the caller's fileIds; the
\* primary strategy gives at most topK documents, in the order of similarity,
\* from the first 5 x topK results of the search.
C35_ContextFromCallerFiles ==
    retrieval # NotCalled =>
        /\ \A k \in 1..Len(retrieval.documents) :
              includes(retrieval.fileIds, retrieval.documents[k].fileId)
        /\ Len(retrieval.primary) <= retrieval.topK
        /\ \A k \in 1..Len(retrieval.primary) :
              /\ retrieval.primary[k].rank <= 5 * retrieval.topK
              /\ includes(retrieval.fileIds, retrieval.primary[k].fileId)
              /\ k > 1 => retrieval.primary[k - 1].rank < retrieval.primary[k].rank

\* The batch has published its processingComplete
BatchCompleted ==
    \E k \in 1..Len(published[UploadRoom(BatchUploadId)]) :
        published[UploadRoom(BatchUploadId)][k].name = "processingComplete"

\* Every other job that was started has published its terminal event
OthersSettled ==
    /\ plan[OtherJob].pc # "idle" => AllTerminals(WorkoutPlanRoom(OtherJob)) # {}
    /\ \A i \in Ids : upload[i].pc # "idle" => AllTerminals(UploadRoom(i)) # {}
    /\ processing # <<>> => BatchCompleted

\* C31: once the first job is at the await of the model's response, which never
\* settles, it stays there and publishes no terminal event; every other job
\* that is under way meanwhile - a generation job, an upload session, a batch
\* of files - goes on to publish its terminal event.
C31_StalledJobStallsAlone ==
    /\ [][Stalled => Stalled']_vars
    /\ [](Stalled => AllTerminals(WorkoutPlanRoom(StalledJob)) = {})
    /\ <>[](Stalled => OthersSettled)

\* The first job is stalled while the other generation job, the upload session
\* and the batch have all published their terminal events
C31_Witness ==
    /\ Stalled
    /\ AllTerminals(WorkoutPlanRoom(StalledJob)) = {}
    /\ AllTerminals(WorkoutPlanRoom(OtherJob)) # {}
    /\ \E i \in Ids : AllTerminals(UploadRoom(i)) # {}
    /\ BatchCompleted

\* C28: in a batch the files before the current one are settled, the files after
\* it are untouched and named by no event, the events that name files come in
\* batch order, and one step settles the current file and no other.
C28_OneFileAtATime ==
    /\ [](\A j \in 1..Len(processing) :
            LET job == processing[j]
                log == published[UploadRoom(job.uploadId)]
                Named(k) == {e \in JobEvents(j) :
                                /\ "fileId" \in DOMAIN log[e].payload
                                /\ log[e].payload.fileId = job.files[k]}
            IN /\ \A k \in 1..Len(job.files) :
                      /\ k < job.current => FileSettled(job.files[k])
                      /\ k > job.current =>
                             /\ fileRecords[job.files[k]].status = "uploaded"
                             /\ Named(k) = {}
                      /\ (k = job.current /\ job.running) =>
                             /\ fileRecords[job.files[k]].status = "uploaded"
                             /\ Named(k) # {}
               /\ \A k1, k2 \in 1..Len(job.files) :
                      k1 < k2 => \A e1 \in Named(k1), e2 \in Named(k2) : e1 < e2)
    /\ [][\A j \in 1..Len(processing) : \A o \in {"ok", "throws"} :
             FileProcessed(j, o) =>
                 \A f \in 1..Len(fileRecords) :
                     fileRecords'[f] # fileRecords[f] =>
                         f = processing[j].files[processing[j].current]]_vars

\* The first file of a batch of two is settled and the second is being processed
C28_Witness ==
    \E j \in 1..Len(processing) :
        /\ processing[j].running
        /\ Len(processing[j].files) = 2
        /\ processing[j].current = 2
        /\ FileSettled(processing[j].files[1])
        /\ fileRecords[processing[j].files[2]].status = "uploaded"

\* The values of field f in the events of log that satisfy Of, in publication order:
\* no later one is smaller than an earlier one
NonDecreasing(log, f, Of(_)) ==
    \A a, b \in 1..Len(log) :
        (a < b /\ Of(log[a]) /\ Of(log[b])) => log[a].payload[f] <= log[b].payload[f]

IsUploadPercent(e) ==
    e.name \in {"uploadProgress", "uploadComplete"} /\ "percent" \in DOMAIN e.payload

IsGenerationProgress(e) ==
    e.name \in {"workoutPlanProgress", "workoutPlanComplete"}
        /\ "progress" \in DOMAIN e.payload

Failed(log, errorName) == \E k \in 1..Len(log) : log[k].name = errorName

\* C29: for an upload with no uploadError the published percent never decreases;
\* for each batch the percent of its processingProgress events never decreases;
\* for a generation job with no workoutPlanError the published progress never
\* decreases, starts at 0 and is 100 at the completion.
C29_ProgressNeverDecreases ==
    /\ \A i \in Ids :
          LET log == published[UploadRoom(i)]
          IN ~Failed(log, "uploadError") => NonDecreasing(log, "percent", IsUploadPercent)
    /\ \A j \in 1..Len(processing) :
          LET log == published[UploadRoom(processing[j].uploadId)]
              OfJob(e) == /\ e.name = "processingProgress"
                          /\ e.payload.processingId = processing[j].processingId
          IN NonDecreasing(log, "percent", OfJob)
    /\ \A p \in Ids :
          LET log == published[WorkoutPlanRoom(p)]
          IN ~Failed(log, "workoutPlanError") =>
                /\ NonDecreasing(log, "progress", IsGenerationProgress)
                /\ Len(log) > 0 => log[1].payload.progress = 0
                /\ \A k \in Completions(p) : log[k].payload.progress = 100

\* An upload, a batch of two files and a generation job have all run to their end
\* without a failure
C29_Witness ==
    /\ \E i \in Ids :
          /\ upload[i].outcome = "completed"
          /\ \E k \in 1..Len(published[UploadRoom(i)]) :
                /\ published[UploadRoom(i)][k].name = "uploadProgress"
                /\ published[UploadRoom(i)][k].payload.percent \notin {0, 100}
    /\ \E j \in 1..Len(processing) :
          /\ ~processing[j].running
          /\ Len(processing[j].files) = 2
          /\ processing[j].processedFiles = 2
    /\ \E p \in Ids : Completions(p) # {}

\* The registry record of an id, <<>> when it has none, in a map
RecordOf(m, i) == IF i \in DOMAIN m THEN <<m[i]>> ELSE <<>>

\* C30: a step changes the registry record of at most one upload, and a step of
\* one processing job changes no file document that belongs to another job.
C30_JobsAreIsolated ==
    [][/\ \A i1, i2 \in Ids :
            (/\ RecordOf(uploadProgressMap', i1) # RecordOf(uploadProgressMap, i1)
             /\ RecordOf(uploadProgressMap', i2) # RecordOf(uploadProgressMap, i2))
                => i1 = i2
       /\ \A j \in 1..Len(processing) : \A o \in {"ok", "throws"} :
            FileProcessed(j, o) =>
                \A k \in 1..Len(processing) : \A m \in 1..Len(processing[k].files) :
                    k # j =>
                        fileRecords'[processing[k].files[m]]
                            = fileRecords[processing[k].files[m]]]_vars

\* C40: a terminal event of a generation job (workoutPlanComplete or
\* workoutPlanError) is the last event published for the job, and the step that
\* publishes it is the last step of generateWorkoutPlan.
C40_NothingAfterTerminal ==
    \A p \in Ids :
        LET log == published[WorkoutPlanRoom(p)]
        IN \A k \in 1..Len(log) :
              log[k].name \in {"workoutPlanComplete", "workoutPlanError"} =>
                  /\ k = Len(log)
                  /\ plan[p].pc = "done"

\* A job has published its completion after six progress events
C40_Witness ==
    \E p \in Ids :
        /\ plan[p].pc = "done"
        /\ Len(published[WorkoutPlanRoom(p)]) = 7
        /\ published[WorkoutPlanRoom(p)][7].name = "workoutPlanComplete"

\* The name was published to the room among its first upto emits
PublishedBefore(room, upto, name) ==
    \E k \in 1..upto : published[room][k].name = name

\* C39: the last joinUploadRoom sent its socket an uploadComplete only if an
\* uploadComplete had been published for the upload before the join, and an
\* uploadError only if an uploadError had been published for it.
C39_ReplayMatchesBroadcast ==
    \A i \in Ids :
        lastJoin.room = UploadRoom(i) =>
            \A n \in 1..Len(Replayed) :
                Replayed[n].name \in {"uploadComplete", "uploadError"} =>
                    PublishedBefore(lastJoin.room, lastJoin.pubLen, Replayed[n].name)

\* C34: a file document whose status is processed or error is never changed again.
C34_StatusOnlyForward ==
    [][\A f \in 1..Len(fileRecords) :
          FileSettled(f) => fileRecords'[f] = fileRecords[f]]_vars

\* The fields an event of a given name has to carry
RequiredFields(name) ==
    CASE name \in {"uploadProgress", "uploadComplete", "uploadError"} -> {"uploadId"}
      [] name \in {"processingStart", "processingProgress", "processingComplete",
                    "processingError"} -> {"uploadId", "processingId", "status"}
      [] name \in {"workoutPlanProgress", "workoutPlanComplete"} -> {"planId"}
      [] name = "workoutPlanError" -> {"planId", "status", "error", "step"}

\* C32: every published event carries the id of the job whose topic it is published
\* to and the fields of its type: the processing events uploadId, processingId and
\* status, the generation error events planId, status failed, error and step.
C32_EventsSelfDescribing ==
    \A r \in RoomNames : \A k \in 1..Len(published[r]) :
        LET e == published[r][k]
        IN /\ RequiredFields(e.name) \subseteq DOMAIN e.payload
           /\ JobTopic(e.name, e.payload) = r
           /\ e.name = "workoutPlanError" => e.payload.status = "failed"

\* C33: no upload of a file of at most 20MB is failed for its size.
C33_SupportedSizeNotRejected ==
    [][\A i \in Ids : \A size \in FileSizes :
          size <= documentedFileSize => ~ParseTooLarge(i, size)]_vars

====
